---- MODULE Spec2Model ----
(***************************************************************************)
(* Routine Runner: the background scheduler (src/src/scheduler_runner.rs), *)
(* the trigger evaluator (src/src/scheduler.rs), the condition evaluator   *)
(* (src/src/conditions.rs), the process executor (src/src/executor.rs),    *)
(* the task commands of the bridge (src/src/commands.rs) and the tables    *)
(* they write (src/src/storage.rs).                                        *)
(*                                                                         *)
(* Instants are seconds since the Unix epoch.  A DateTime<Local> and a     *)
(* DateTime<Utc> denote the same instant; the local calendar day, weekday  *)
(* and wall-clock time are derived from the instant with the zone offset.  *)
(* A text (a "HH:MM" time, a weekday code) is a sequence of one-character  *)
(* strings.                                                                *)
(***************************************************************************)
EXTENDS Integers, Sequences, FiniteSets, Bags, TLC

\* ------------------------------------------------------------------ bounds
\* How many times the clock advances in a behaviour.
MaxClockSteps == 2
\* Rows the run_logs table can take before an insert fails.
MaxLogs == 1
\* The largest max_parallel a SchedulerRunner is constructed with.
MaxParallelInput == 1

\* ------------------------------------------------------------ Option<T>
NoneInt == [some |-> FALSE, v |-> 0]
SomeInt(x) == [some |-> TRUE, v |-> x]
NoneText == [some |-> FALSE, v |-> <<>>]
SomeText(s) == [some |-> TRUE, v |-> s]
NoneList == [some |-> FALSE, v |-> <<>>]
SomeList(l) == [some |-> TRUE, v |-> l]

\* ------------------------------------------------------------------ time
SecondsPerDay == 24 * 60 * 60
\* The clock is observed on a grid of half days.
TimeStep == 12 * 60 * 60
\* The zone of chrono::Local: a fixed offset east of UTC (UTC+7, no DST).
TzOffset == 7 * 60 * 60
\* The first clock reading: Monday 1970-01-05 00:00 UTC (07:00 local).
StartInstant == 4 * SecondsPerDay

\* DateTime<Local>::format("%Y-%m-%d"): the rendering is one-to-one on local
\* calendar days; the text is represented by the ordinal of the day it names.
format_date(t) == (t + TzOffset) \div SecondsPerDay
\* DateTime<Local>::time(), in seconds after local midnight.
time_of(t) == (t + TzOffset) % SecondsPerDay
\* DateTime<Local>::weekday(): 1970-01-01 (day 0) was a Thursday.
weekday_of(t) == (format_date(t) + 3) % 7
\* Local.from_local_datetime(date.and_time(tod)) in a zone without transitions:
\* always LocalResult::Single.
from_local_datetime(day, tod) == day * SecondsPerDay + tod - TzOffset

weekday_to_string(wd) ==
    CASE wd = 0 -> <<"M", "o", "n">>
      [] wd = 1 -> <<"T", "u", "e">>
      [] wd = 2 -> <<"W", "e", "d">>
      [] wd = 3 -> <<"T", "h", "u">>
      [] wd = 4 -> <<"F", "r", "i">>
      [] wd = 5 -> <<"S", "a", "t">>
      [] wd = 6 -> <<"S", "u", "n">>

\* u8::to_ascii_lowercase on the letters that occur in weekday codes.
to_ascii_lowercase(c) ==
    CASE c = "M" -> "m" [] c = "T" -> "t" [] c = "W" -> "w" [] c = "F" -> "f"
      [] c = "S" -> "s" [] c = "O" -> "o" [] c = "N" -> "n" [] c = "U" -> "u"
      [] c = "E" -> "e" [] c = "D" -> "d" [] c = "H" -> "h" [] c = "R" -> "r"
      [] c = "I" -> "i" [] c = "A" -> "a" [] c = "Y" -> "y"
      [] OTHER -> c

eq_ignore_ascii_case(a, b) ==
    /\ Len(a) = Len(b)
    /\ \A k \in 1..Len(a) : to_ascii_lowercase(a[k]) = to_ascii_lowercase(b[k])

\* The day filter comparing the codes letter for letter.
day_allowed_exact(days, wd) ==
    \E k \in 1..Len(days) : days[k] = weekday_to_string(wd)
\* days.iter().any(|d| d.eq_ignore_ascii_case(&weekday))
day_allowed(days, wd) ==
    \E k \in 1..Len(days) : eq_ignore_ascii_case(days[k], weekday_to_string(wd))

Digits == {"0", "1", "2", "3", "4", "5", "6", "7", "8", "9"}
DigitVal(c) ==
    CASE c = "0" -> 0 [] c = "1" -> 1 [] c = "2" -> 2 [] c = "3" -> 3
      [] c = "4" -> 4 [] c = "5" -> 5 [] c = "6" -> 6 [] c = "7" -> 7
      [] c = "8" -> 8 [] c = "9" -> 9

\* One numeric item of a chrono format (%H, %M): one or two decimal digits.
scan_number(s) ==
    IF Len(s) >= 2 /\ s[1] \in Digits /\ s[2] \in Digits
    THEN [ok |-> TRUE, val |-> 10 * DigitVal(s[1]) + DigitVal(s[2]), rest |-> SubSeq(s, 3, Len(s))]
    ELSE IF Len(s) >= 1 /\ s[1] \in Digits
    THEN [ok |-> TRUE, val |-> DigitVal(s[1]), rest |-> SubSeq(s, 2, Len(s))]
    ELSE [ok |-> FALSE, val |-> 0, rest |-> s]

\* NaiveTime::parse_from_str(s, "%H:%M"): Ok(seconds after midnight) or Err.
parse_from_str(s) ==
    LET h == scan_number(s)
        colon == h.ok /\ Len(h.rest) >= 1 /\ h.rest[1] = ":"
        m == IF colon THEN scan_number(SubSeq(h.rest, 2, Len(h.rest)))
             ELSE [ok |-> FALSE, val |-> 0, rest |-> <<>>]
    IN  IF colon /\ m.ok /\ m.rest = <<>> /\ h.val < 24 /\ m.val < 60
        THEN [ok |-> TRUE, val |-> h.val * 3600 + m.val * 60]
        ELSE [ok |-> FALSE, val |-> 0]

\* ---------------------------------------------------------------- models
\* TaskState (models.rs): the per-task runtime record.
TaskState(id, date, at, result, error) ==
    [task_id |-> id, last_run_date_local |-> date, last_run_at_utc |-> at,
     last_result |-> result, last_error |-> error, next_run_at_utc |-> NoneInt]

OnLogin(en, delay) == [type |-> "OnLogin", enabled |-> en, delay_seconds |-> delay]
OncePerDay(en, earliest, days) ==
    [type |-> "OncePerDay", enabled |-> en, earliest_time_local |-> earliest, days_of_week |-> days]
DailyAt(en, time, days) ==
    [type |-> "DailyAt", enabled |-> en, time_local |-> time, days_of_week |-> days]
Interval(en, every, jitter) ==
    [type |-> "Interval", enabled |-> en, every_seconds |-> every, jitter_seconds |-> jitter]

\* ------------------------------------------------------ trigger evaluator
\* The three ways a call of compute_next_run ends: None, Some(instant), or a
\* panic that unwinds the caller.
NextNone == [tag |-> "None", v |-> 0]
NextSome(t) == [tag |-> "Some", v |-> t]
NextPanic == [tag |-> "panic", v |-> 0]

\* rand_jitter: the sub-second nanoseconds of the wall clock modulo max.  The
\* remainder by zero panics.
rand_jitter(max, nanos) ==
    IF max = 0 THEN NextPanic ELSE NextSome(nanos % max)

compute_OncePerDay(trigger, now_local, state) ==
    IF ~trigger.enabled THEN NextNone
    ELSE IF state.last_run_date_local = SomeInt(format_date(now_local)) THEN NextNone
    ELSE IF /\ trigger.days_of_week.some
            /\ ~day_allowed(trigger.days_of_week.v, weekday_of(now_local)) THEN NextNone
    ELSE LET earliest == parse_from_str(trigger.earliest_time_local.v)
         IN  IF /\ trigger.earliest_time_local.some
                /\ earliest.ok
                /\ time_of(now_local) < earliest.val
             THEN NextSome(from_local_datetime(format_date(now_local), earliest.val))
             ELSE NextSome(now_local)

\* The DailyAt arm, lines 66-88: the target of day_offset, and whether the loop
\* returns it (it is after now and its weekday passes the filter).
target_local(now_local, target_time, day_offset) ==
    from_local_datetime(format_date(now_local + day_offset * SecondsPerDay), target_time)

\* occurs accepting a target that is not after now.
occurs_at_or_after(trigger, now_local, target_time, day_offset) ==
    /\ target_local(now_local, target_time, day_offset) >= now_local
    /\ \/ ~trigger.days_of_week.some
       \/ day_allowed(trigger.days_of_week.v,
                      weekday_of(target_local(now_local, target_time, day_offset)))
occurs(trigger, now_local, target_time, day_offset) ==
    /\ target_local(now_local, target_time, day_offset) > now_local
    /\ \/ ~trigger.days_of_week.some
       \/ day_allowed(trigger.days_of_week.v,
                      weekday_of(target_local(now_local, target_time, day_offset)))

\* The loop over day_offset in 0..8 returns at the first day that occurs.
compute_DailyAt(trigger, now_local) ==
    IF ~trigger.enabled \/ ~parse_from_str(trigger.time_local).ok THEN NextNone
    ELSE IF \A d \in 0..7 : ~occurs(trigger, now_local, parse_from_str(trigger.time_local).val, d)
    THEN NextNone
    ELSE NextSome(target_local(now_local, parse_from_str(trigger.time_local).val,
                     CHOOSE d \in 0..7 :
                        /\ occurs(trigger, now_local, parse_from_str(trigger.time_local).val, d)
                        /\ \A e \in 0..(d - 1) :
                              ~occurs(trigger, now_local, parse_from_str(trigger.time_local).val, e)))

\* compute_Interval without the test of line 110: a next run in the past is
\* returned as it is.
compute_Interval_unclamped(trigger, now_local, state, nanos) ==
    IF ~trigger.enabled \/ trigger.every_seconds < 60 THEN NextNone
    ELSE LET base == IF state.last_run_at_utc.some THEN state.last_run_at_utc.v ELSE now_local
             next == base + trigger.every_seconds
             jitter == IF trigger.jitter_seconds.some
                       THEN rand_jitter(trigger.jitter_seconds.v, nanos)
                       ELSE NextSome(0)
         IN  IF jitter.tag = "panic" THEN NextPanic
             ELSE NextSome(next + jitter.v)

compute_Interval(trigger, now_local, state, nanos) ==
    IF ~trigger.enabled \/ trigger.every_seconds < 60 THEN NextNone
    ELSE LET base == IF state.last_run_at_utc.some THEN state.last_run_at_utc.v ELSE now_local
             next == base + trigger.every_seconds
             jitter == IF trigger.jitter_seconds.some
                       THEN rand_jitter(trigger.jitter_seconds.v, nanos)
                       ELSE NextSome(0)
         IN  IF jitter.tag = "panic" THEN NextPanic
             ELSE IF next + jitter.v <= now_local THEN NextSome(now_local)
             ELSE NextSome(next + jitter.v)

\* compute_next_run(trigger, now_local, state); nanos is the wall-clock
\* reading rand_jitter takes.
compute_next_run(trigger, now_local, state, nanos) ==
    CASE trigger.type = "OnLogin" -> NextNone
      [] trigger.type = "OncePerDay" -> compute_OncePerDay(trigger, now_local, state)
      [] trigger.type = "DailyAt" -> compute_DailyAt(trigger, now_local)
      [] trigger.type = "Interval" -> compute_Interval(trigger, now_local, state, nanos)

\* A DateTime<Utc> with its sub-second part: whole seconds since the epoch and
\* the nanoseconds within the second.
At(secs, nanos) == [secs |-> secs, nanos |-> nanos]

\* (a - b).num_seconds(): the whole seconds of the difference, the fraction
\* cut off towards zero.
num_seconds(a, b) ==
    IF a.secs - b.secs > 0 /\ a.nanos < b.nanos THEN a.secs - b.secs - 1
    ELSE IF a.secs - b.secs < 0 /\ a.nanos > b.nanos THEN a.secs - b.secs + 1
    ELSE a.secs - b.secs

\* check_misfire(policy, scheduled, now)
check_misfire(policy, scheduled, now) ==
    IF policy.type = "RunImmediately" THEN FALSE
    ELSE num_seconds(now, scheduled) > policy.seconds

\* ---------------------------------------------------- condition evaluator
\* What the probes of the conditions find: env.network (the DNS lookup
\* resolves), env.ac_power (ACLineStatus = 1 or the query failed), and
\* env.procs (the image names tasklist reports).
evaluate_single_condition(c, env) ==
    CASE c.type = "NetworkAvailable" -> env.network
      [] c.type = "OnAcPower" -> env.ac_power
      [] c.type = "ProcessNotRunning" -> c.process_name \notin env.procs
      [] c.type = "OnlyIfPathExists" -> TRUE
      [] c.type = "IdleForSeconds" -> TRUE

\* evaluate_conditions: "true", "false" or "err".  Every probe returns Ok, so
\* no list of conditions yields "err".
evaluate_conditions(conditions, env) ==
    IF \A k \in 1..Len(conditions) : evaluate_single_condition(conditions[k], env)
    THEN "true" ELSE "false"

\* evaluate_conditions probing every condition of the list.
conditions_probed_all(conditions, env) == conditions
\* evaluate_conditions, lines 8-12: the conditions the loop evaluates, in
\* order: those up to the first that is false, or all.
conditions_probed(conditions, env) ==
    IF \A k \in 1..Len(conditions) : evaluate_single_condition(conditions[k], env)
    THEN conditions
    ELSE SubSeq(conditions, 1,
                CHOOSE k \in 1..Len(conditions) :
                    /\ ~evaluate_single_condition(conditions[k], env)
                    /\ \A j \in 1..(k - 1) : evaluate_single_condition(conditions[j], env))

\* ---------------------------------------------------------------- executor
NoneStr == [some |-> FALSE, v |-> ""]
SomeStr(s) == [some |-> TRUE, v |-> s]

\* Result<ExecutionResult, ExecutorError>: err = "" for Ok(ExecutionResult).
ExecOk(success, exit_code, error_message) ==
    [err |-> "", success |-> success, exit_code |-> exit_code, error_message |-> error_message]
ExecErr(e) ==
    [err |-> e, success |-> FALSE, exit_code |-> NoneInt, error_message |-> NoneStr]

\* check_exit_code reading an empty list as no list.
check_exit_code_empty_as_none(code, success_codes) ==
    IF success_codes.some /\ success_codes.v # <<>>
    THEN \E k \in 1..Len(success_codes.v) : success_codes.v[k] = code
    ELSE code = 0
\* check_exit_code(code, success_codes)
check_exit_code(code, success_codes) ==
    IF success_codes.some
    THEN \E k \in 1..Len(success_codes.v) : success_codes.v[k] = code
    ELSE code = 0

\* The result of a process that exited with `code`.
exit_result(task, code) ==
    LET success == check_exit_code(code, task.success_exit_codes)
    IN  ExecOk(success, SomeInt(code), IF success THEN NoneStr ELSE SomeStr("Exit code"))

\* execute_exe.  env.spawn_ok: the spawn succeeds; env.timed_out: the child is
\* still running when the timeout is found elapsed; env.exit_code: its
\* status otherwise.
execute_exe(task, env) ==
    IF ~env.spawn_ok THEN ExecErr("IoError")
    ELSE IF task.wait_policy.type = "DontWait" THEN ExecOk(TRUE, NoneInt, NoneStr)
    ELSE IF task.wait_policy.timeout_seconds.some /\ env.timed_out THEN ExecErr("Timeout")
    ELSE exit_result(task, env.exit_code)

\* execute_shell_open (the Windows build): cmd /C start "" <path>.
execute_shell_open(task, env) ==
    IF ~env.spawn_ok THEN ExecErr("IoError")
    ELSE ExecOk(env.exit_code = 0, SomeInt(env.exit_code),
                IF env.exit_code = 0 THEN NoneStr ELSE SomeStr("Failed to open"))

\* execute_task applying the Skip of if_running_action before the path test.
execute_task_probe_first(task, env) ==
    IF task.target_type = "Exe" /\ env.is_running /\ task.if_running_action = "Skip"
    THEN ExecOk(TRUE, NoneInt, SomeStr("Skipped - already running"))
    ELSE IF task.target_type \in {"Exe", "File", "Folder", "Shortcut"} /\ ~env.path_exists
    THEN ExecErr("PathNotFound")
    ELSE IF task.target_type = "Exe" THEN execute_exe(task, env)
    ELSE execute_shell_open(task, env)
\* execute_task returning the soft skip without its message.
execute_task_skip_unexplained(task, env) ==
    IF task.target_type \in {"Exe", "File", "Folder", "Shortcut"} /\ ~env.path_exists
    THEN ExecErr("PathNotFound")
    ELSE IF task.target_type = "Exe" /\ env.is_running /\ task.if_running_action = "Skip"
    THEN ExecOk(TRUE, NoneInt, NoneStr)
    ELSE IF task.target_type = "Exe" THEN execute_exe(task, env)
    ELSE execute_shell_open(task, env)
\* execute_task.  env.path_exists: Path::exists; env.is_running: tasklist
\* names the image.
execute_task(task, env) ==
    IF task.target_type \in {"Exe", "File", "Folder", "Shortcut"} /\ ~env.path_exists
    THEN ExecErr("PathNotFound")
    ELSE IF task.target_type = "Exe" /\ env.is_running /\ task.if_running_action = "Skip"
    THEN ExecOk(TRUE, NoneInt, SomeStr("Skipped - already running"))
    ELSE IF task.target_type = "Exe" THEN execute_exe(task, env)
    ELSE execute_shell_open(task, env)

\* parse_args, lines 286-301: the loop over the characters from position k on.
RECURSIVE parse_args_loop(_, _, _, _, _)
parse_args_loop(args, k, current, in_quotes, result) ==
    IF k > Len(args)
    THEN IF current # <<>> THEN Append(result, current) ELSE result
    ELSE IF args[k] = "\""
    THEN parse_args_loop(args, k + 1, current, ~in_quotes, result)
    ELSE IF args[k] \in {" ", "\t"} /\ ~in_quotes
    THEN parse_args_loop(args, k + 1, <<>>, in_quotes,
                         IF current # <<>> THEN Append(result, current) ELSE result)
    ELSE parse_args_loop(args, k + 1, Append(current, args[k]), in_quotes, result)

\* parse_args that never enters the quoted state.
parse_args_ignoring_quotes(args) ==
    parse_args_loop(SelectSeq(args, LAMBDA c : c # "\""), 1, <<>>, FALSE, <<>>)
\* parse_args(args): the tokens of an argument string, each a text.
parse_args(args) == parse_args_loop(args, 1, <<>>, FALSE, <<>>)

\* The operating-system operations execute_task performs, in order: the path
\* test, the tasklist probe, the taskkill of a restart, the spawn of the
\* target and the kill of a child that timed out.
os_calls(task, env) ==
    LET file_based == task.target_type \in {"Exe", "File", "Folder", "Shortcut"}
        check == IF file_based THEN <<"exists">> ELSE <<>>
        probe == IF task.target_type = "Exe" THEN <<"tasklist">> ELSE <<>>
        kill == IF task.target_type = "Exe" /\ env.is_running /\ task.if_running_action = "Restart"
                THEN <<"taskkill">> ELSE <<>>
        wait == IF /\ task.target_type = "Exe" /\ env.spawn_ok
                   /\ task.wait_policy.type = "WaitForExit"
                   /\ task.wait_policy.timeout_seconds.some /\ env.timed_out
                THEN <<"child_kill">> ELSE <<>>
    IN  IF file_based /\ ~env.path_exists THEN check
        ELSE IF task.target_type = "Exe" /\ env.is_running /\ task.if_running_action = "Skip"
        THEN check \o probe
        ELSE check \o probe \o kill \o <<"spawn">> \o wait

ExecEnv(path_exists, is_running, spawn_ok, timed_out, exit_code) ==
    [path_exists |-> path_exists, is_running |-> is_running, spawn_ok |-> spawn_ok,
     timed_out |-> timed_out, exit_code |-> exit_code]

\* What a dispatched execution may meet: the target starts and exits with 0,
\* the path is missing, the process exits with 1, the image already runs, the
\* path is missing while an image of that name runs.
ExecEnvs ==
    { ExecEnv(TRUE, FALSE, TRUE, FALSE, 0), ExecEnv(FALSE, FALSE, TRUE, FALSE, 0),
      ExecEnv(TRUE, FALSE, TRUE, FALSE, 1), ExecEnv(TRUE, TRUE, TRUE, FALSE, 0),
      ExecEnv(FALSE, TRUE, TRUE, FALSE, 0) }

CondEnvs == [network : BOOLEAN, ac_power : BOOLEAN, procs : {{}, {"x.exe"}}]

\* ------------------------------------------------------------ stored tasks
TaskIds == {"a", "b"}

\* Text constants of the catalogue.
Noon == <<"1", "2", ":", "0", "0">>
MonLower == <<"m", "o", "n">>

RunImmediately == [type |-> "RunImmediately", seconds |-> 0]
SkipIfLateOverSeconds(s) == [type |-> "SkipIfLateOverSeconds", seconds |-> s]

DontWait == [type |-> "DontWait", timeout_seconds |-> NoneInt]
WaitForExit(timeout) == [type |-> "WaitForExit", timeout_seconds |-> timeout]

\* Task::default() with the given id; name stands for the rank of the task's
\* name in the ORDER BY of get_all_tasks.
DefaultTask(id, name) ==
    [id |-> id, name |-> name, enabled |-> TRUE, target_type |-> "File",
     start_delay_seconds |-> 0, wait_policy |-> DontWait, singleton |-> TRUE,
     success_exit_codes |-> SomeList(<<0>>), if_running_action |-> "Skip",
     misfire_policy |-> RunImmediately,
     triggers |-> <<>>, conditions |-> <<>>]

Daily == OncePerDay(TRUE, NoneText, NoneList)

TaskTable(a, b) == [id \in TaskIds |-> IF id = "a" THEN a ELSE b]

\* The task tables a behaviour may start with.
Catalog ==
    { \* a singleton executable; a task whose last trigger alone can be due
      TaskTable(
        [DefaultTask("a", 1) EXCEPT !.target_type = "Exe", !.triggers = <<Daily>>],
        [DefaultTask("b", 2) EXCEPT
            !.triggers = <<OncePerDay(FALSE, NoneText, NoneList), DailyAt(TRUE, Noon, NoneList),
                           Interval(TRUE, 60, NoneInt), OnLogin(TRUE, 0), Daily>>]),
      \* a delayed task due on Monday afternoons that tolerates a minute of
      \* lateness; a task with conditions
      TaskTable(
        [DefaultTask("a", 1) EXCEPT !.target_type = "Exe", !.singleton = FALSE,
            !.start_delay_seconds = TimeStep, !.wait_policy = WaitForExit(SomeInt(1)),
            !.misfire_policy = SkipIfLateOverSeconds(60), !.if_running_action = "Restart",
            !.triggers = <<OncePerDay(TRUE, SomeText(Noon), SomeList(<<MonLower>>))>>],
        [DefaultTask("b", 2) EXCEPT !.target_type = "Url", !.singleton = FALSE,
            !.triggers = <<Daily>>,
            !.conditions = <<[type |-> "NetworkAvailable"],
                             [type |-> "ProcessNotRunning", process_name |-> "x.exe"]>>]),
      \* a disabled task; an executable with an Interval trigger whose jitter is
      \* Some(0)
      TaskTable(
        [DefaultTask("a", 1) EXCEPT !.enabled = FALSE, !.triggers = <<Daily>>],
        [DefaultTask("b", 2) EXCEPT !.singleton = FALSE, !.target_type = "Exe",
            !.if_running_action = "RunAnyway",
            !.triggers = <<Daily, Interval(TRUE, 60, SomeInt(0))>>]) }

\* ------------------------------------------------------- scheduler runner
\* The concurrent invocations of SchedulerRunner::run on one runner.
Loops == {"L1", "L2"}

VARIABLES
    now,            \* the clock: what Utc::now() and Local::now() return
    paused,         \* SchedulerRunner.paused
    running_tasks,  \* SchedulerRunner.running_tasks: the in-flight ids
    max_parallel,   \* SchedulerRunner.max_parallel
    db_tasks,       \* table tasks: id -> Task
    db_task_state,  \* table task_state: task_id -> TaskState
    db_logs,        \* table run_logs: a bag of RunLog rows
    pc,             \* where each invocation of run is
    tk,             \* the locals of each invocation's current tick
    last_iter,      \* how the latest iteration of a run loop went
    call,           \* the call under way: a command of the bridge or a function
    ret             \* what the evaluations of call returned, in order

vars == <<now, paused, running_tasks, max_parallel, db_tasks, db_task_state,
          db_logs, pc, tk, last_iter, call, ret>>

\* No call is under way.
NoCall == [fn |-> "none"]

NoPos == <<0, 0>>
\* The locals of a tick that is not running.
IdleTk == [tasks |-> <<>>, now |-> 0, pos |-> NoPos, wake_at |-> 0]

\* Between "mark as running" and "mark as not running".
SpanPcs == {"delay", "exec"}
\* Inside execute_task_if_ready.
DispatchPcs ==
    {"gate_singleton", "gate_parallel", "gate_conditions", "conditions_true", "conditions_false",
     "conditions_err", "delay", "exec"}

RECURSIVE sort_by_name(_)
sort_by_name(rows) ==
    IF rows = {} THEN <<>>
    ELSE LET first == CHOOSE r \in rows : \A q \in rows : r.name <= q.name
         IN  <<first>> \o sort_by_name(rows \ {first})

\* Database::get_all_tasks: SELECT ... FROM tasks ORDER BY name.
get_all_tasks(tbl) == sort_by_name({tbl[id] : id \in DOMAIN tbl})

\* SchedulerRunner::get_task_state: a fresh, empty state; the table is not read.
get_task_state(tbl, task_id) == TaskState(task_id, NoneInt, NoneInt, NoneStr, NoneStr)

\* SchedulerRunner::update_task_state: the new state is built and dropped; the
\* table is returned as it was.
update_task_state(tbl, task, result, t) ==
    LET state == TaskState(task.id, SomeInt(format_date(t)), SomeInt(t),
                           SomeStr(IF result.err = "" /\ result.success THEN "Success" ELSE "Failed"),
                           IF result.err = "" THEN NoneStr ELSE SomeStr(result.err))
    IN  tbl

\* is_paused reading a flag that is never set.
is_paused_never == FALSE
\* SchedulerRunner::is_paused
is_paused == paused

\* Database::insert_log: the row is appended, or the insert fails (the table is
\* full) and the caller logs the error and goes on.
insert_log(logs, log) ==
    IF BagCardinality(logs) < MaxLogs THEN logs (+) SetToBag({log}) ELSE logs

\* The RunLog of log_skip.
skip_log(task, trigger, reason, t) ==
    [task_id |-> task.id, trigger_type |-> trigger, at |-> t, status |-> "Skipped",
     skip_reason |-> reason, exit_code |-> NoneInt, error_message |-> NoneStr]

\* log_execution recording every result as a success.
execution_log_always_success(task, trigger, result, t) ==
    [task_id |-> task.id, trigger_type |-> trigger, at |-> t, status |-> "Success",
     skip_reason |-> "", exit_code |-> NoneInt, error_message |-> NoneStr]
\* The RunLog of log_execution.
execution_log(task, trigger, result, t) ==
    [task_id |-> task.id, trigger_type |-> trigger, at |-> t,
     status |-> IF result.err = "" /\ result.success THEN "Success" ELSE "Failed",
     skip_reason |-> "",
     exit_code |-> IF result.err = "" THEN result.exit_code ELSE NoneInt,
     error_message |-> IF result.err # "" THEN SomeStr(result.err)
                       ELSE IF result.success THEN NoneStr ELSE result.error_message]

\* The (task, trigger) positions of a task list, in the order tick visits them.
Positions(tasks) ==
    UNION {{<<i, j>> : j \in 1..Len(tasks[i].triggers)} : i \in 1..Len(tasks)}

\* tick, lines 81-91: what the trigger at pos evaluates to.
evaluate_at(tasks, pos, t, nanos) ==
    compute_next_run(tasks[pos[1]].triggers[pos[2]], t,
                     get_task_state(db_task_state, tasks[pos[1]].id), nanos)

\* is_due without the test of line 81.
is_due_any_task(tasks, pos, t, nanos) ==
    /\ evaluate_at(tasks, pos, t, nanos).tag = "Some"
    /\ evaluate_at(tasks, pos, t, nanos).v <= t
\* tick, lines 81-91: the task is enabled and the trigger's next run is at or
\* before the tick's now.
is_due(tasks, pos, t, nanos) ==
    /\ tasks[pos[1]].enabled
    /\ evaluate_at(tasks, pos, t, nanos).tag = "Some"
    /\ evaluate_at(tasks, pos, t, nanos).v <= t

\* tick, lines 81-90: the task is enabled and compute_next_run panics.
panics(tasks, pos, t, nanos) ==
    tasks[pos[1]].enabled /\ evaluate_at(tasks, pos, t, nanos).tag = "panic"

\* The sub-second readings of the wall clock rand_jitter may take.
Nanos == {0, 999999999}

CurTask(p) == tk[p].tasks[tk[p].pos[1]]
CurTrigger(p) == CurTask(p).triggers[tk[p].pos[2]]

\* tick, lines 80 and 89: the first (task, trigger) position of a task after the
\* task numbered `after`, or NoPos when the loop over tasks is exhausted.
first_pos(tasks, after) ==
    IF \A i \in (after + 1)..Len(tasks) : Len(tasks[i].triggers) = 0 THEN NoPos
    ELSE <<CHOOSE i \in (after + 1)..Len(tasks) :
                /\ Len(tasks[i].triggers) > 0
                /\ \A k \in (after + 1)..(i - 1) : Len(tasks[k].triggers) = 0,
           1>>

\* tick, lines 80 and 89: the position the loops reach after pos.
next_pos(tasks, pos) ==
    IF pos[2] < Len(tasks[pos[1]].triggers) THEN <<pos[1], pos[2] + 1>>
    ELSE first_pos(tasks, pos[1])

\* The loops of tick move to position pos, or tick returns Ok when there is none.
GoOn(p, pos) ==
    IF pos = NoPos
    THEN /\ pc' = [pc EXCEPT ![p] = "idle"]
         /\ tk' = [tk EXCEPT ![p] = IdleTk]
    ELSE /\ pc' = [pc EXCEPT ![p] = "scan"]
         /\ tk' = [tk EXCEPT ![p].pos = pos, ![p].wake_at = 0]

\* execute_task_if_ready returned Ok: the trigger loop goes on after tk[p].pos.
Return(p) == GoOn(p, next_pos(tk[p].tasks, tk[p].pos))

Init ==
    /\ now = StartInstant
    /\ paused = FALSE
    /\ running_tasks = {}
    /\ max_parallel \in 0..MaxParallelInput
    /\ db_tasks \in Catalog
    /\ db_task_state = [id \in {} |-> 0]
    /\ db_logs = EmptyBag
    /\ pc = [p \in Loops |-> "idle"]
    /\ tk = [p \in Loops |-> IdleTk]
    /\ last_iter = "none"
    /\ call = NoCall
    /\ ret = <<>>

\* run, lines 62-66: the interval fires while the pause flag is set.
TickPaused(p) ==
    /\ pc[p] = "idle"
    /\ is_paused
    /\ last_iter' = "paused"
    /\ UNCHANGED <<now, paused, running_tasks, max_parallel, db_tasks, db_task_state, db_logs, pc, tk, call, ret>>

\* run, lines 68-70, and tick, line 76: get_all_tasks fails, tick returns Err.
TickDbError(p) ==
    /\ pc[p] = "idle"
    /\ ~is_paused
    /\ UNCHANGED vars

\* run, lines 62-68, and tick, lines 76-80: the pause flag is clear; the task
\* list and the clock are read.
TickStart(p) ==
    /\ pc[p] = "idle"
    /\ ~is_paused
    /\ \E tasks \in {get_all_tasks(db_tasks)} :
         IF first_pos(tasks, 0) = NoPos
         THEN UNCHANGED <<pc, tk>>
         ELSE /\ pc' = [pc EXCEPT ![p] = "scan"]
              /\ tk' = [tk EXCEPT ![p] = [tasks |-> tasks, now |-> now,
                                          pos |-> first_pos(tasks, 0), wake_at |-> 0]]
    /\ last_iter' = "tick"
    /\ UNCHANGED <<now, paused, running_tasks, max_parallel, db_tasks, db_task_state, db_logs, call, ret>>

\* tick, lines 81-96: the trigger at tk[p].pos is evaluated.  The evaluation
\* panics and unwinds run, or the trigger is due and execute_task_if_ready is
\* entered, or the loops move on.
EvaluateTrigger(p) ==
    /\ pc[p] = "scan"
    /\ \E nanos \in Nanos :
         IF panics(tk[p].tasks, tk[p].pos, tk[p].now, nanos)
         THEN /\ pc' = [pc EXCEPT ![p] = "panicked"]
              /\ tk' = [tk EXCEPT ![p] = IdleTk]
         ELSE IF is_due(tk[p].tasks, tk[p].pos, tk[p].now, nanos)
         THEN /\ pc' = [pc EXCEPT ![p] = "gate_singleton"]
              /\ UNCHANGED tk
         ELSE Return(p)
    /\ UNCHANGED <<now, paused, running_tasks, max_parallel, db_tasks, db_task_state, db_logs, last_iter, call, ret>>

\* The singleton gate placed after the concurrency gate.
GateSingleton_after_parallel(p) ==
    /\ pc[p] = "gate_singleton"
    /\ IF Cardinality(running_tasks) >= max_parallel
       THEN /\ Return(p)
            /\ UNCHANGED db_logs
       ELSE IF CurTask(p).singleton /\ CurTask(p).id \in running_tasks
       THEN /\ db_logs' = insert_log(db_logs, skip_log(CurTask(p), CurTrigger(p), "Singleton", now))
            /\ Return(p)
       ELSE /\ pc' = [pc EXCEPT ![p] = "gate_parallel"]
            /\ UNCHANGED <<db_logs, tk>>
    /\ UNCHANGED <<now, paused, running_tasks, max_parallel, db_tasks, db_task_state, last_iter, call, ret>>
\* execute_task_if_ready, lines 122-130: the singleton gate.
GateSingleton(p) ==
    /\ pc[p] = "gate_singleton"
    /\ IF CurTask(p).singleton /\ CurTask(p).id \in running_tasks
       THEN /\ db_logs' = insert_log(db_logs, skip_log(CurTask(p), CurTrigger(p), "Singleton", now))
            /\ Return(p)
       ELSE /\ pc' = [pc EXCEPT ![p] = "gate_parallel"]
            /\ UNCHANGED <<db_logs, tk>>
    /\ UNCHANGED <<now, paused, running_tasks, max_parallel, db_tasks, db_task_state, last_iter, call, ret>>

\* The concurrency gate recording its deferral as a skip.
GateParallel_logging(p) ==
    /\ pc[p] = "gate_parallel"
    /\ IF Cardinality(running_tasks) >= max_parallel
       THEN /\ db_logs' = insert_log(db_logs, skip_log(CurTask(p), CurTrigger(p), "Overlap", now))
            /\ Return(p)
       ELSE /\ pc' = [pc EXCEPT ![p] = "gate_conditions"]
            /\ UNCHANGED <<db_logs, tk>>
    /\ UNCHANGED <<now, paused, running_tasks, max_parallel, db_tasks, db_task_state, last_iter, call, ret>>
\* execute_task_if_ready, lines 132-139: the concurrency gate.
GateParallel(p) ==
    /\ pc[p] = "gate_parallel"
    /\ IF Cardinality(running_tasks) >= max_parallel
       THEN Return(p)
       ELSE /\ pc' = [pc EXCEPT ![p] = "gate_conditions"]
            /\ UNCHANGED tk
    /\ UNCHANGED <<now, paused, running_tasks, max_parallel, db_tasks, db_task_state, db_logs, last_iter, call, ret>>

\* What evaluate_conditions may return for the task being dispatched.
Verdicts(p) == {evaluate_conditions(CurTask(p).conditions, env) : env \in CondEnvs}

\* execute_task_if_ready, line 142: evaluate_conditions returns Ok(true),
\* Ok(false) or Err.
EvaluateConditions(p) ==
    /\ pc[p] = "gate_conditions"
    /\ \E verdict \in Verdicts(p) :
          pc' = [pc EXCEPT ![p] = IF verdict = "true" THEN "conditions_true"
                                  ELSE IF verdict = "false" THEN "conditions_false"
                                  ELSE "conditions_err"]
    /\ UNCHANGED <<now, paused, running_tasks, max_parallel, db_tasks, db_task_state, db_logs, tk, last_iter, call, ret>>

\* The condition gate closing without a RunLog.
GateConditions_unlogged(p) ==
    /\ pc[p] \in {"conditions_false", "conditions_err"}
    /\ IF pc[p] = "conditions_false"
       THEN Return(p)
       ELSE /\ pc' = [pc EXCEPT ![p] = "idle"]
            /\ tk' = [tk EXCEPT ![p] = IdleTk]
    /\ UNCHANGED <<now, paused, running_tasks, max_parallel, db_tasks, db_task_state, db_logs, last_iter, call, ret>>
\* execute_task_if_ready, lines 141-153: the condition gate closes.  Ok(false)
\* logs a skip and returns Ok; Err returns Err, which ends the tick.
GateConditions(p) ==
    /\ pc[p] \in {"conditions_false", "conditions_err"}
    /\ IF pc[p] = "conditions_false"
       THEN /\ db_logs' = insert_log(db_logs, skip_log(CurTask(p), CurTrigger(p), "ConditionFail", now))
            /\ Return(p)
       ELSE /\ pc' = [pc EXCEPT ![p] = "idle"]
            /\ tk' = [tk EXCEPT ![p] = IdleTk]
            /\ UNCHANGED db_logs
    /\ UNCHANGED <<now, paused, running_tasks, max_parallel, db_tasks, db_task_state, last_iter, call, ret>>

\* execute_task_if_ready, lines 142-143 and 158-170: the conditions hold, the id
\* is inserted and the start delay begins.
MarkRunning(p) ==
    /\ pc[p] = "conditions_true"
    /\ running_tasks' = running_tasks \cup {CurTask(p).id}
    /\ IF CurTask(p).start_delay_seconds > 0
       THEN /\ pc' = [pc EXCEPT ![p] = "delay"]
            /\ tk' = [tk EXCEPT ![p].wake_at = now + CurTask(p).start_delay_seconds]
       ELSE /\ pc' = [pc EXCEPT ![p] = "exec"]
            /\ UNCHANGED tk
    /\ UNCHANGED <<now, paused, max_parallel, db_tasks, db_task_state, db_logs, last_iter, call, ret>>

\* execute_task_if_ready, lines 165-170: the sleep is over.
DelayElapsed(p) ==
    /\ pc[p] = "delay"
    /\ now >= tk[p].wake_at
    /\ pc' = [pc EXCEPT ![p] = "exec"]
    /\ UNCHANGED <<now, paused, running_tasks, max_parallel, db_tasks, db_task_state, db_logs, tk, last_iter, call, ret>>

\* The end of an execution that leaves the id in the in-flight set.
FinishExecution_keeping_id(p) ==
    /\ pc[p] = "exec"
    /\ \E env \in ExecEnvs :
         LET result == execute_task(CurTask(p), env)
         IN  /\ db_logs' = insert_log(db_logs, execution_log(CurTask(p), CurTrigger(p), result, now))
             /\ db_task_state' = update_task_state(db_task_state, CurTask(p), result, now)
             /\ ret' = <<[value |-> result, os |-> os_calls(CurTask(p), env), exec |-> env]>>
    /\ Return(p)
    /\ UNCHANGED <<now, paused, running_tasks, max_parallel, db_tasks, last_iter, call>>
\* execute_task_if_ready, lines 173-187: execute_task returns, the id is
\* removed, the result is logged, update_task_state runs and the trigger loop
\* goes on.
FinishExecution(p) ==
    /\ pc[p] = "exec"
    /\ \E env \in ExecEnvs :
         LET result == execute_task(CurTask(p), env)
         IN  /\ db_logs' = insert_log(db_logs, execution_log(CurTask(p), CurTrigger(p), result, now))
             /\ db_task_state' = update_task_state(db_task_state, CurTask(p), result, now)
             /\ ret' = <<[value |-> result, os |-> os_calls(CurTask(p), env), exec |-> env]>>
    /\ running_tasks' = running_tasks \ {CurTask(p).id}
    /\ Return(p)
    /\ UNCHANGED <<now, paused, max_parallel, db_tasks, last_iter, call>>

\* SchedulerRunner::pause.  The call is recorded with the flag it found.
Pause ==
    /\ paused' = TRUE
    /\ call' = [fn |-> "pause", before |-> paused]
    /\ UNCHANGED <<now, running_tasks, max_parallel, db_tasks, db_task_state, db_logs, pc, tk, last_iter, ret>>

\* SchedulerRunner::resume
Resume ==
    /\ paused' = FALSE
    /\ call' = [fn |-> "resume", before |-> paused]
    /\ UNCHANGED <<now, running_tasks, max_parallel, db_tasks, db_task_state, db_logs, pc, tk, last_iter, ret>>

\* SchedulerRunner::is_paused, asked by the bridge: the flag is returned.
IsPaused ==
    /\ call' = [fn |-> "is_paused", before |-> paused, value |-> is_paused]
    /\ UNCHANGED <<now, paused, running_tasks, max_parallel, db_tasks, db_task_state, db_logs, pc, tk, last_iter, ret>>

\* toggle_pause returning what fetch_xor returns.
TogglePause_returning_fetched ==
    /\ paused' = ~paused
    /\ call' = [fn |-> "toggle_pause", before |-> paused, value |-> paused]
    /\ UNCHANGED <<now, running_tasks, max_parallel, db_tasks, db_task_state, db_logs, pc, tk, last_iter, ret>>
\* SchedulerRunner::toggle_pause: fetch_xor(true) flips the flag and returns
\* the old value, whose negation is returned.
TogglePause ==
    /\ paused' = ~paused
    /\ call' = [fn |-> "toggle_pause", before |-> paused, value |-> ~paused]
    /\ UNCHANGED <<now, running_tasks, max_parallel, db_tasks, db_task_state, db_logs, pc, tk, last_iter, ret>>

\* Time passes.
ClockAdvance ==
    /\ now < StartInstant + MaxClockSteps * TimeStep
    /\ now' = now + TimeStep
    /\ UNCHANGED <<paused, running_tasks, max_parallel, db_tasks, db_task_state, db_logs, pc, tk, last_iter, call, ret>>

LoopStep(p) ==
    \/ TickPaused(p)
    \/ TickDbError(p)
    \/ TickStart(p)
    \/ EvaluateTrigger(p)
    \/ GateSingleton(p)
    \/ GateParallel(p)
    \/ EvaluateConditions(p)
    \/ GateConditions(p)
    \/ MarkRunning(p)
    \/ DelayElapsed(p)
    \/ FinishExecution(p)

Control == Pause \/ Resume \/ IsPaused \/ TogglePause

\* One invocation of run, the pause control and the clock.
Next == LoopStep("L1") \/ Control \/ ClockAdvance

Spec == Init /\ [][Next]_vars

\* Two invocations of run on one SchedulerRunner, ticking concurrently.
Dispatch(p) ==
    \/ TickStart(p)
    \/ EvaluateTrigger(p)
    \/ GateSingleton(p)
    \/ GateParallel(p)
    \/ EvaluateConditions(p)
    \/ GateConditions(p)
    \/ MarkRunning(p)
    \/ DelayElapsed(p)
    \/ FinishExecution(p)

NextConcurrent == (\E p \in Loops : Dispatch(p)) \/ ClockAdvance

SpecConcurrent == Init /\ [][NextConcurrent]_vars

\* A runner whose concurrency gate can open, over a table with a task that may
\* overlap itself.
InitLive ==
    /\ Init
    /\ max_parallel > 0
    /\ \E id \in TaskIds : ~db_tasks[id].singleton

\* The scheduling of the runtime: every invocation of run that can take a step
\* takes one, and time passes.
SpecLive ==
    /\ InitLive
    /\ [][NextConcurrent]_vars
    /\ \A p \in Loops : WF_vars(Dispatch(p))
    /\ WF_vars(ClockAdvance)

\* ---------------------------------------------------------------- commands
\* The ids a command of the bridge is invoked with: the stored ids and one
\* that names no task.
CommandIds == TaskIds \cup {"zz"}

\* Database::update_task_state(&state), which storage.rs does not define: the
\* row of table task_state keyed by state.task_id is inserted or replaced.
db_update_task_state(tbl, state) ==
    [id \in DOMAIN tbl \cup {state.task_id} |->
        IF id = state.task_id THEN state ELSE tbl[id]]

\* run_task_now, lines 124-149: the RunLog of a manual run.
manual_log(task, result, t) ==
    [task_id |-> task.id, trigger_type |-> [type |-> "Manual"], at |-> t,
     status |-> IF result.err = "" /\ result.success THEN "Success" ELSE "Failed",
     skip_reason |-> "",
     exit_code |-> IF result.err = "" THEN result.exit_code ELSE NoneInt,
     error_message |-> IF result.err # "" THEN SomeStr(result.err)
                       ELSE IF result.success THEN NoneStr ELSE result.error_message]

\* run_task_now, lines 154-168: the TaskState of a manual run.
manual_state(task, result, t) ==
    TaskState(task.id, SomeInt(format_date(t)), SomeInt(t),
              SomeStr(manual_log(task, result, t).status),
              manual_log(task, result, t).error_message)

\* run_task_now, lines 171-175: the value the command returns.
command_value(result) ==
    IF result.err # "" THEN result.err
    ELSE IF result.success THEN "Ok"
    ELSE IF result.error_message.some THEN result.error_message.v ELSE "Task failed"

\* The bridge invokes run_task_now(id) on a machine where the condition probes
\* would report cond and the executor meets exec.
InvokeRunTaskNow ==
    /\ call = NoCall \/ ret # <<>>
    /\ \E id \in CommandIds, cond \in CondEnvs, exec \in ExecEnvs :
          call' = [fn |-> "run_task_now", id |-> id, cond |-> cond, exec |-> exec]
    /\ ret' = <<>>
    /\ UNCHANGED <<now, paused, running_tasks, max_parallel, db_tasks, db_task_state, db_logs, pc, tk, last_iter>>

\* run_task_now refusing to run while the scheduler is paused.
RunTaskNow_unless_paused ==
    /\ call.fn = "run_task_now"
    /\ ret = <<>>
    /\ \E tasks \in {get_all_tasks(db_tasks)} :
         IF paused \/ \A i \in 1..Len(tasks) : tasks[i].id # call.id
         THEN /\ ret' = <<[value |-> "Task not found", os |-> <<>>, exec |-> call.exec]>>
              /\ UNCHANGED <<db_logs, db_task_state>>
         ELSE \E task \in {tasks[CHOOSE i \in 1..Len(tasks) : tasks[i].id = call.id]} :
              \E result \in {execute_task(task, call.exec)} :
                /\ db_logs' = insert_log(db_logs, manual_log(task, result, now))
                /\ db_task_state' = db_update_task_state(db_task_state, manual_state(task, result, now))
                /\ ret' = <<[value |-> command_value(result), os |-> os_calls(task, call.exec),
                             exec |-> call.exec]>>
    /\ UNCHANGED <<now, paused, running_tasks, max_parallel, db_tasks, pc, tk, last_iter, call>>
\* run_task_now: the task is looked up and executed, the RunLog is inserted,
\* the TaskState is written and the result is returned.
RunTaskNow ==
    /\ call.fn = "run_task_now"
    /\ ret = <<>>
    /\ \E tasks \in {get_all_tasks(db_tasks)} :
         IF \A i \in 1..Len(tasks) : tasks[i].id # call.id
         THEN /\ ret' = <<[value |-> "Task not found", os |-> <<>>, exec |-> call.exec]>>
              /\ UNCHANGED <<db_logs, db_task_state>>
         ELSE \E task \in {tasks[CHOOSE i \in 1..Len(tasks) : tasks[i].id = call.id]} :
              \E result \in {execute_task(task, call.exec)} :
                /\ db_logs' = insert_log(db_logs, manual_log(task, result, now))
                /\ db_task_state' = db_update_task_state(db_task_state, manual_state(task, result, now))
                /\ ret' = <<[value |-> command_value(result), os |-> os_calls(task, call.exec),
                             exec |-> call.exec]>>
    /\ UNCHANGED <<now, paused, running_tasks, max_parallel, db_tasks, pc, tk, last_iter, call>>

\* What a manually run task may meet: the target starts and exits with 0, or
\* the path is missing.
StoreExecEnvs == {ExecEnv(TRUE, FALSE, TRUE, FALSE, 0), ExecEnv(FALSE, FALSE, TRUE, FALSE, 0)}
StoreCondEnvs == {[network |-> TRUE, ac_power |-> TRUE, procs |-> {}]}

\* How many manual runs of a stored task a behaviour holds beside the loop.
MaxManualRuns == 1

\* The bridge invokes run_task_now(id) beside a running scheduler loop.  (A
\* TaskState is stored by manual runs only.)
InvokeRunTaskNowBeside ==
    /\ call.fn # "run_task_now" \/ ret # <<>>
    /\ Cardinality(DOMAIN db_task_state) < MaxManualRuns
    /\ \E id \in CommandIds, cond \in StoreCondEnvs, exec \in StoreExecEnvs :
          call' = [fn |-> "run_task_now", id |-> id, cond |-> cond, exec |-> exec]
    /\ ret' = <<>>
    /\ UNCHANGED <<now, paused, running_tasks, max_parallel, db_tasks, db_task_state, db_logs, pc, tk, last_iter>>

\* One invocation of run, the pause control, the clock and manual runs.
NextBeside ==
    \/ LoopStep("L1")
    \/ Pause
    \/ Resume
    \/ ClockAdvance
    \/ InvokeRunTaskNowBeside
    \/ RunTaskNow

SpecBeside == Init /\ [][NextBeside]_vars

\* The commands of the bridge, on a runner whose loop is not started.
NextCommands == InvokeRunTaskNow \/ RunTaskNow

SpecCommands == Init /\ [][NextCommands]_vars

\* ------------------------------------------------------ the task commands
\* Database::insert_task: one row is added to table tasks; no other table is
\* written.
insert_task(tbl, task) ==
    [id \in DOMAIN tbl \cup {task.id} |-> IF id = task.id THEN task ELSE tbl[id]]

\* Database::update_task: the row with the task's id is replaced; an id that
\* is not stored changes no row.
db_update_task(tbl, task) ==
    [id \in DOMAIN tbl |-> IF id = task.id THEN task ELSE tbl[id]]

\* Database::delete_task: the rows of the id are removed from a table.
delete_rows(tbl, id) == [k \in DOMAIN tbl \ {id} |-> tbl[k]]

\* The tasks the bridge submits for creation: an executable and a document.
NewTaskInputs ==
    { [DefaultTask("", 1) EXCEPT !.target_type = "Exe", !.triggers = <<Daily>>],
      [DefaultTask("", 2) EXCEPT !.singleton = FALSE] }

\* The database after run_migrations on a new file: no task, no state, no log.
InitStore ==
    /\ now = StartInstant
    /\ paused = FALSE
    /\ running_tasks = {}
    /\ max_parallel = 1
    /\ db_tasks = [id \in {} |-> 0]
    /\ db_task_state = [id \in {} |-> 0]
    /\ db_logs = EmptyBag
    /\ pc = [p \in Loops |-> "idle"]
    /\ tk = [p \in Loops |-> IdleTk]
    /\ last_iter = "none"
    /\ call = NoCall
    /\ ret = <<>>

\* create_task: the task gets a new id (one that no row mentions) and is
\* inserted.
CreateTask ==
    /\ call = NoCall \/ ret # <<>>
    /\ \E task \in NewTaskInputs, id \in TaskIds :
          /\ id \notin DOMAIN db_tasks \cup DOMAIN db_task_state
          /\ \A log \in BagToSet(db_logs) : log.task_id # id
          /\ db_tasks' = insert_task(db_tasks, [task EXCEPT !.id = id])
          /\ call' = [fn |-> "create_task", id |-> id]
    /\ ret' = <<[value |-> "Ok"]>>
    /\ UNCHANGED <<now, paused, running_tasks, max_parallel, db_task_state, db_logs, pc, tk, last_iter>>

\* update_task: the submitted task replaces the stored one of its id.
UpdateTask ==
    /\ call = NoCall \/ ret # <<>>
    /\ \E id \in CommandIds, task \in NewTaskInputs, enabled \in BOOLEAN :
          /\ db_tasks' = db_update_task(db_tasks, [task EXCEPT !.id = id, !.enabled = enabled])
          /\ call' = [fn |-> "update_task", id |-> id]
    /\ ret' = <<[value |-> "Ok"]>>
    /\ UNCHANGED <<now, paused, running_tasks, max_parallel, db_task_state, db_logs, pc, tk, last_iter>>

\* delete_task: the task and its state are deleted.
DeleteTask ==
    /\ call = NoCall \/ ret # <<>>
    /\ \E id \in CommandIds :
          /\ db_tasks' = delete_rows(db_tasks, id)
          /\ db_task_state' = delete_rows(db_task_state, id)
          /\ call' = [fn |-> "delete_task", id |-> id]
    /\ ret' = <<[value |-> "Ok"]>>
    /\ UNCHANGED <<now, paused, running_tasks, max_parallel, db_logs, pc, tk, last_iter>>

\* The bridge invokes run_task_now(id) while tasks are created and deleted.
InvokeRunTaskNowStored ==
    /\ call = NoCall \/ ret # <<>>
    /\ \E id \in CommandIds, cond \in StoreCondEnvs, exec \in StoreExecEnvs :
          call' = [fn |-> "run_task_now", id |-> id, cond |-> cond, exec |-> exec]
    /\ ret' = <<>>
    /\ UNCHANGED <<now, paused, running_tasks, max_parallel, db_tasks, db_task_state, db_logs, pc, tk, last_iter>>

\* The task commands of the bridge, on a runner whose loop is not started.
NextStore ==
    \/ CreateTask
    \/ UpdateTask
    \/ DeleteTask
    \/ InvokeRunTaskNowStored
    \/ RunTaskNow

SpecStore == InitStore /\ [][NextStore]_vars

\* ------------------------------------------- waiting for a child's exit
\* The longest timeout of a waited task, in seconds.
MaxTimeout == 1
\* The sleep between two polls of the child, in milliseconds (line 213).
PollMillis == 200
\* What a sleep of PollMillis may take: its duration, or longer.
Sleeps == {PollMillis, 2 * PollMillis}
\* Duration::from_secs, in milliseconds.
from_secs(secs) == 1000 * secs
\* When the child exits, in milliseconds after the spawn: from at once to
\* half a second after the longest timeout.
ExitTimes == {100 * k : k \in 0..(10 * MaxTimeout + 5)}

\* The executables waited for with a timeout.
TimedTasks ==
    {[DefaultTask("a", 1) EXCEPT !.target_type = "Exe",
                                 !.wait_policy = WaitForExit(SomeInt(timeout))] :
        timeout \in 0..MaxTimeout}

\* execute_exe, lines 184-186: the child is spawned and the clock of the wait
\* is started.  The frame of the call: where the loop is, the time elapsed
\* since start, the calls of try_wait made, whether kill was called and
\* whether the child is still owned (running or a zombie) or reaped.  The
\* child exits with status `code` exits_at milliseconds after the spawn;
\* probe_error: try_wait fails.
InitWait ==
    /\ now = StartInstant
    /\ paused = FALSE
    /\ running_tasks = {}
    /\ max_parallel = MaxParallelInput
    /\ db_tasks = [id \in {} |-> 0]
    /\ db_task_state = [id \in {} |-> 0]
    /\ db_logs = EmptyBag
    /\ pc = [p \in Loops |-> "idle"]
    /\ tk = [p \in Loops |-> IdleTk]
    /\ last_iter = "none"
    /\ call \in [fn : {"wait_for_exit"}, task : TimedTasks, exits_at : ExitTimes,
                  code : {0, 1}, probe_error : BOOLEAN, at : {"check"}, elapsed : {0},
                  polls : {0}, kill_called : {FALSE}, child : {"owned"}]
    /\ ret = <<>>

\* The timeout test returning Timeout without killing and reaping the child.
CheckTimeout_abandoning ==
    /\ call.fn = "wait_for_exit"
    /\ call.at = "check"
    /\ IF call.elapsed >= from_secs(call.task.wait_policy.timeout_seconds.v)
       THEN /\ call' = [call EXCEPT !.at = "done"]
            /\ ret' = <<ExecErr("Timeout")>>
       ELSE /\ call' = [call EXCEPT !.at = "poll"]
            /\ UNCHANGED ret
    /\ UNCHANGED <<now, paused, running_tasks, max_parallel, db_tasks, db_task_state, db_logs, pc, tk, last_iter>>
\* execute_exe, lines 191-196: the timeout test at the head of the loop.  When
\* the timeout has elapsed the child is killed (which fails, unnoticed, when it
\* has exited), waited for, and Timeout is returned.
CheckTimeout ==
    /\ call.fn = "wait_for_exit"
    /\ call.at = "check"
    /\ IF call.elapsed >= from_secs(call.task.wait_policy.timeout_seconds.v)
       THEN /\ call' = [call EXCEPT !.at = "done", !.kill_called = TRUE, !.child = "reaped"]
            /\ ret' = <<ExecErr("Timeout")>>
       ELSE /\ call' = [call EXCEPT !.at = "poll"]
            /\ UNCHANGED ret
    /\ UNCHANGED <<now, paused, running_tasks, max_parallel, db_tasks, db_task_state, db_logs, pc, tk, last_iter>>

\* execute_exe, lines 199-219: try_wait.  An exited child is reaped and its
\* result returned; a running one is slept on; an error is returned as it is.
TryWait ==
    /\ call.fn = "wait_for_exit"
    /\ call.at = "poll"
    /\ IF call.probe_error
       THEN /\ call' = [call EXCEPT !.at = "done", !.polls = @ + 1]
            /\ ret' = <<ExecErr("IoError")>>
       ELSE IF call.elapsed >= call.exits_at
       THEN /\ call' = [call EXCEPT !.at = "done", !.polls = @ + 1, !.child = "reaped"]
            /\ ret' = <<exit_result(call.task, call.code)>>
       ELSE /\ \E slept \in Sleeps :
                 call' = [call EXCEPT !.at = "check", !.polls = @ + 1, !.elapsed = @ + slept]
            /\ UNCHANGED ret
    /\ UNCHANGED <<now, paused, running_tasks, max_parallel, db_tasks, db_task_state, db_logs, pc, tk, last_iter>>

NextWait == CheckTimeout \/ TryWait

\* The thread that runs execute_exe is scheduled.
SpecWait == InitWait /\ [][NextWait]_vars /\ WF_vars(NextWait)

\* ------------------------------------------------- evaluation of functions
\* How many times one call is evaluated.
MaxEvals == 2

\* The texts given as times: three that parse, and an hour out of range, a
\* minute out of range and a word.
TimeTexts ==
    { Noon, <<"0", "0", ":", "0", "0">>, <<"2", "3", ":", "5", "9">>,
      <<"2", "5", ":", "0", "0">>, <<"1", "2", ":", "6", "0">>, <<"a", "b">> }

DayFilters == {NoneList, SomeList(<<MonLower>>)}

\* The day filters of OncePerDay triggers: also an empty list, Monday in
\* capitals, and Tuesday and Monday in mixed case.
OncePerDayFilters ==
    DayFilters \cup {SomeList(<<>>), SomeList(<<<<"M", "O", "N">>>>),
                     SomeList(<<<<"t", "U", "e">>, <<"M", "o", "n">>>>),
                     SomeList(<<<<"T", "u", "e">>>>)}

\* The triggers compute_next_run is evaluated on.
EvalTriggers ==
    {OnLogin(en, 0) : en \in BOOLEAN}
    \cup {DailyAt(en, time, days) : en \in BOOLEAN, time \in TimeTexts, days \in DayFilters}
    \cup {OncePerDay(en, earliest, days) :
            en \in BOOLEAN, earliest \in {NoneText} \cup {SomeText(t) : t \in TimeTexts},
            days \in OncePerDayFilters}
    \cup {Interval(en, every, jitter) :
            en \in BOOLEAN, every \in {59, 60, 120}, jitter \in {NoneInt, SomeInt(0), SomeInt(7)}}

\* Monday 1970-01-05 12:00 local.
NoonMonday == from_local_datetime(format_date(StartInstant), parse_from_str(Noon).val)

\* The readings of the clock: around noon of Monday, and Tuesday.
EvalNows ==
    {NoonMonday - 30, NoonMonday - 1, NoonMonday, NoonMonday + 1, NoonMonday + 30,
     NoonMonday + 59, NoonMonday + SecondsPerDay}

\* The states of a task: never run, and last run at noon of Monday.
EvalStates ==
    { TaskState("a", NoneInt, NoneInt, NoneStr, NoneStr),
      TaskState("a", SomeInt(format_date(NoonMonday)), SomeInt(NoonMonday), SomeStr("Success"), NoneStr) }

MisfirePolicies == {RunImmediately, SkipIfLateOverSeconds(0), SkipIfLateOverSeconds(60)}

\* The instants check_misfire is evaluated on, half seconds included.
EvalInstants ==
    {At(NoonMonday + d, n) : d \in {-1, 0, 1, 59, 60, 61, 62}, n \in {0, 500000000}}

\* The exit codes of a process, and the success sets of a task.
ExitCodes == {-1, 0, 1, 2}
SuccessSets == {NoneList, SomeList(<<>>), SomeList(<<0, 2>>), SomeList(<<1>>)}

\* Executables that are waited for, with and without a timeout.
WaitedTasks ==
    {[DefaultTask("a", 1) EXCEPT !.target_type = "Exe", !.wait_policy = WaitForExit(timeout),
                                 !.success_exit_codes = codes] :
        timeout \in {NoneInt, SomeInt(1)}, codes \in SuccessSets}

\* Executables with each if_running_action, launched without waiting and
\* waited for.
RunningPolicyTasks ==
    {[DefaultTask("a", 1) EXCEPT !.target_type = "Exe", !.if_running_action = action,
                                 !.wait_policy = wait] :
        action \in {"Skip", "Restart", "RunAnyway"}, wait \in {DontWait, WaitForExit(NoneInt)}}

\* The lists of conditions evaluate_conditions is evaluated on.
ConditionLists ==
    LET net == [type |-> "NetworkAvailable"]
        ac == [type |-> "OnAcPower"]
        notx == [type |-> "ProcessNotRunning", process_name |-> "x.exe"]
        path == [type |-> "OnlyIfPathExists"]
        idle == [type |-> "IdleForSeconds", seconds |-> 5]
    IN  {<<>>, <<net>>, <<path>>, <<idle>>, <<net, notx>>, <<notx, net>>, <<path, idle>>,
         <<ac, path, net>>, <<idle, notx, ac>>}

\* The longest argument string that is tokenized.
MaxArgLen == 4
\* The characters of an argument string.
ArgChars == {"a", "b", " ", "\t", "\""}
\* foo "bar baz" qux
ArgsExample ==
    <<"f", "o", "o", " ", "\"", "b", "a", "r", " ", "b", "a", "z", "\"", " ", "q", "u", "x">>
ArgStrings == UNION {[1..n -> ArgChars] : n \in 0..MaxArgLen} \cup {ArgsExample}

\* The calls that are evaluated.
EvalCalls ==
    [fn : {"compute_next_run"}, trigger : EvalTriggers, now : EvalNows, state : EvalStates]
    \cup [fn : {"check_misfire"}, policy : MisfirePolicies,
           scheduled : {At(NoonMonday, 0), At(NoonMonday, 500000000)}, now : EvalInstants]
    \cup [fn : {"check_exit_code"}, code : ExitCodes, success_codes : SuccessSets]
    \cup [fn : {"execute_exe"}, task : WaitedTasks,
           env : {ExecEnv(TRUE, FALSE, TRUE, timed_out, code) :
                    timed_out \in BOOLEAN, code \in ExitCodes}]
    \cup [fn : {"parse_args"}, args : ArgStrings]
    \cup [fn : {"evaluate_conditions"}, conditions : ConditionLists, env : CondEnvs]
    \cup [fn : {"execute_task"}, task : RunningPolicyTasks,
           env : {ExecEnv(TRUE, is_running, TRUE, FALSE, code) :
                    is_running \in BOOLEAN, code \in {0, 1}}]

InitEval ==
    /\ now = StartInstant
    /\ paused = FALSE
    /\ running_tasks = {}
    /\ max_parallel = MaxParallelInput
    /\ db_tasks = [id \in {} |-> 0]
    /\ db_task_state = [id \in {} |-> 0]
    /\ db_logs = EmptyBag
    /\ pc = [p \in Loops |-> "idle"]
    /\ tk = [p \in Loops |-> IdleTk]
    /\ last_iter = "none"
    /\ call \in EvalCalls
    /\ ret = <<>>

\* compute_next_run(call.trigger, call.now, call.state) is evaluated; the wall
\* clock rand_jitter reads is at some nanosecond.
EvalComputeNextRun ==
    /\ call.fn = "compute_next_run"
    /\ Len(ret) < MaxEvals
    /\ \E nanos \in Nanos :
          ret' = Append(ret, compute_next_run(call.trigger, call.now, call.state, nanos))
    /\ UNCHANGED <<now, paused, running_tasks, max_parallel, db_tasks, db_task_state, db_logs, pc, tk, last_iter, call>>

\* check_misfire(call.policy, call.scheduled, call.now) is evaluated.
EvalCheckMisfire ==
    /\ call.fn = "check_misfire"
    /\ Len(ret) < MaxEvals
    /\ ret' = Append(ret, check_misfire(call.policy, call.scheduled, call.now))
    /\ UNCHANGED <<now, paused, running_tasks, max_parallel, db_tasks, db_task_state, db_logs, pc, tk, last_iter, call>>

\* check_exit_code(call.code, call.success_codes) is evaluated.
EvalCheckExitCode ==
    /\ call.fn = "check_exit_code"
    /\ Len(ret) < MaxEvals
    /\ ret' = Append(ret, check_exit_code(call.code, call.success_codes))
    /\ UNCHANGED <<now, paused, running_tasks, max_parallel, db_tasks, db_task_state, db_logs, pc, tk, last_iter, call>>

\* execute_exe(call.task) is evaluated on a machine that behaves as call.env.
EvalExecuteExe ==
    /\ call.fn = "execute_exe"
    /\ Len(ret) < MaxEvals
    /\ ret' = Append(ret, execute_exe(call.task, call.env))
    /\ UNCHANGED <<now, paused, running_tasks, max_parallel, db_tasks, db_task_state, db_logs, pc, tk, last_iter, call>>

\* parse_args(call.args) is evaluated.
EvalParseArgs ==
    /\ call.fn = "parse_args"
    /\ Len(ret) < MaxEvals
    /\ ret' = Append(ret, parse_args(call.args))
    /\ UNCHANGED <<now, paused, running_tasks, max_parallel, db_tasks, db_task_state, db_logs, pc, tk, last_iter, call>>

\* execute_task(call.task) is evaluated on a machine that behaves as call.env;
\* the result is kept with the operating-system operations performed.
EvalExecuteTask ==
    /\ call.fn = "execute_task"
    /\ Len(ret) < MaxEvals
    /\ ret' = Append(ret, [value |-> execute_task(call.task, call.env),
                            os |-> os_calls(call.task, call.env)])
    /\ UNCHANGED <<now, paused, running_tasks, max_parallel, db_tasks, db_task_state, db_logs, pc, tk, last_iter, call>>

\* evaluate_conditions(call.conditions) is evaluated on a machine whose probes
\* find call.env; the result is kept with the conditions that were probed.
EvalEvaluateConditions ==
    /\ call.fn = "evaluate_conditions"
    /\ Len(ret) < MaxEvals
    /\ ret' = Append(ret, [value |-> evaluate_conditions(call.conditions, call.env),
                            probed |-> conditions_probed(call.conditions, call.env)])
    /\ UNCHANGED <<now, paused, running_tasks, max_parallel, db_tasks, db_task_state, db_logs, pc, tk, last_iter, call>>

NextEval ==
    \/ EvalEvaluateConditions
    \/ EvalExecuteTask
    \/ EvalComputeNextRun
    \/ EvalCheckMisfire
    \/ EvalCheckExitCode
    \/ EvalExecuteExe
    \/ EvalParseArgs

SpecEval == InitEval /\ [][NextEval]_vars

\* ------------------------------------------------------------------ claims
\* The invocations of run that are between "mark as running" and "mark as not
\* running" for the task id.
Executing(id) == {p \in Loops : pc[p] \in SpanPcs /\ CurTask(p).id = id}

\* C1: a singleton task never has two overlapping executions, also when ticks
\* run concurrently.
C1_SingletonNeverOverlaps ==
    \A id \in TaskIds : db_tasks[id].singleton => Cardinality(Executing(id)) <= 1

\* C2: the number of tasks marked in-flight never exceeds max_parallel.
C2_InFlightWithinMaxParallel == Cardinality(running_tasks) <= max_parallel

\* C3: the poll loop does not block on an execution: no invocation of run is
\* itself held between the start and the end of an execution it dispatched.
C3_PollLoopNeverBlocks == \A p \in Loops : pc[p] \notin SpanPcs

\* Another task of the tick of p is due and comes after the task p dispatches.
DueBehind(p) ==
    \E pos \in Positions(tk[p].tasks) :
        /\ pos[1] > tk[p].pos[1]
        /\ \E nanos \in Nanos : is_due(tk[p].tasks, pos, tk[p].now, nanos)

\* C4: the start delay of a task delays that task only: no other task that is
\* due in the same tick waits while the delay runs.
C4_DelayHoldsOnlyItsTask ==
    \A p \in Loops : ~(pc[p] = "delay" /\ now < tk[p].wake_at /\ DueBehind(p))

\* The rows of run_logs that record an execution (not a skip) of the task id.
ExecutionLogs(id) ==
    {log \in BagToSet(db_logs) : log.task_id = id /\ log.status # "Skipped"}

OnlyOncePerDay(task) ==
    Len(task.triggers) = 1 /\ task.triggers[1].type = "OncePerDay"

\* C5: a task whose only trigger is OncePerDay is executed at most once per
\* local date: no execution of it is in progress on a date for which run_logs
\* already records an execution of it.
C5_OncePerDayAtMostOncePerDate ==
    \A p \in Loops :
        (pc[p] = "exec" /\ OnlyOncePerDay(CurTask(p))) =>
            \A log \in ExecutionLogs(CurTask(p).id) : format_date(log.at) # format_date(now)

\* C6: after every execution the stored TaskState of the task holds the local
\* date, the instant, the result and the error of that run.
C6_StateStoredAfterExecution ==
    \A id \in TaskIds : \A log \in ExecutionLogs(id) :
        /\ id \in DOMAIN db_task_state
        /\ db_task_state[id].last_run_date_local = SomeInt(format_date(log.at))
        /\ db_task_state[id].last_run_at_utc = SomeInt(log.at)
        /\ db_task_state[id].last_result = SomeStr(log.status)
        /\ db_task_state[id].last_error = log.error_message

\* C7: every dispatch attempt of the scheduler is for an enabled task and an
\* enabled trigger whose compute_next_run is an instant at or before the now of
\* the tick; every RunLog is of an enabled task and an enabled trigger.
C7_DispatchOnlyWhenDue ==
    /\ \A p \in Loops : pc[p] \in DispatchPcs =>
          /\ CurTask(p).enabled
          /\ CurTrigger(p).enabled
          /\ \E nanos \in Nanos :
                /\ evaluate_at(tk[p].tasks, tk[p].pos, tk[p].now, nanos).tag = "Some"
                /\ evaluate_at(tk[p].tasks, tk[p].pos, tk[p].now, nanos).v <= tk[p].now
    /\ \A log \in BagToSet(db_logs) :
          db_tasks[log.task_id].enabled /\ log.trigger_type.enabled

\* An execution is in progress and a RunLog was written, in a table that also
\* holds a disabled task or a disabled trigger.
C7_Witness ==
    /\ \E p \in Loops : pc[p] = "exec"
    /\ db_logs # EmptyBag
    /\ \E id \in TaskIds :
          \/ ~db_tasks[id].enabled
          \/ \E k \in 1..Len(db_tasks[id].triggers) : ~db_tasks[id].triggers[k].enabled

\* The task id is enabled and one of its triggers is due at the present clock.
DueNow(id) ==
    LET tasks == get_all_tasks(db_tasks)
    IN  \E pos \in Positions(tasks) :
            tasks[pos[1]].id = id /\ \E nanos \in Nanos : is_due(tasks, pos, now, nanos)

\* C8: an iteration of run that finds the pause flag set is a no-op: it loads
\* no tasks, starts no dispatch, changes no in-flight id, writes no RunLog and
\* no TaskState.
C8_PausedTickIsNoOp ==
    [][\A p \in Loops :
          (paused /\ pc[p] = "idle" /\ LoopStep(p)) =>
              UNCHANGED <<now, paused, running_tasks, max_parallel, db_tasks,
                          db_task_state, db_logs, pc, tk>>]_vars

\* The latest iteration of run found the flag set while a task was due.
C8_Witness ==
    /\ paused
    /\ last_iter = "paused"
    /\ \E id \in TaskIds : DueNow(id)

\* The concurrency gate defers the task id: an invocation of run is at the gate
\* and the in-flight count is at or above max_parallel.
Deferred(id) ==
    \E p \in Loops :
        /\ pc[p] = "gate_parallel"
        /\ CurTask(p).id = id
        /\ Cardinality(running_tasks) >= max_parallel

\* An invocation of run has just taken the task id past the concurrency gate.
PassedGate(id) ==
    \E p \in Loops : pc[p] = "gate_conditions" /\ CurTask(p).id = id

\* C10: a due task deferred by the concurrency gate is never dropped: unless
\* the in-flight count stays at max_parallel again and again, or the task stops
\* being due, a later tick takes it past the gate.
C10_DeferredEventuallyDispatched ==
    \A id \in TaskIds :
        Deferred(id) ~>
            (\/ PassedGate(id)
             \/ ~DueNow(id)
             \/ []<>(Cardinality(running_tasks) >= max_parallel))

\* The instant the trigger p dispatches was scheduled for: the earliest bound
\* of a OncePerDay trigger on the local date of the tick, else the tick's now.
ScheduledFor(p) ==
    IF /\ CurTrigger(p).type = "OncePerDay"
       /\ CurTrigger(p).earliest_time_local.some
       /\ parse_from_str(CurTrigger(p).earliest_time_local.v).ok
    THEN from_local_datetime(format_date(tk[p].now),
                             parse_from_str(CurTrigger(p).earliest_time_local.v).val)
    ELSE tk[p].now

\* C11: the misfire policy is applied before a due trigger is dispatched: a
\* trigger whose lateness exceeds the SkipIfLateOverSeconds threshold of its
\* task never reaches the execution.
C11_LateTriggerSkipped ==
    \A p \in Loops :
        pc[p] \in SpanPcs =>
            ~check_misfire(CurTask(p).misfire_policy, At(ScheduledFor(p), 0), At(tk[p].now, 0))

\* A call of run_task_now for a stored task has returned.
RanNow == call.fn = "run_task_now" /\ ret # <<>> /\ call.id \in TaskIds

\* C12: run_task_now honours the conditions of the task: when they evaluate
\* to false on the machine, the command does not launch the target.
C12_RunNowHonorsConditions ==
    (RanNow /\ evaluate_conditions(db_tasks[call.id].conditions, call.cond) = "false") =>
        \A k \in 1..Len(ret[1].os) : ret[1].os[k] # "spawn"

\* The invocation p of run leaves the execution of a dispatch in this step.
ExecutorReturns(p) == pc[p] = "exec" /\ pc'[p] # "exec"

\* This step adds exactly one row to run_logs: a row of the task p dispatched,
\* without skip reason, whose status is Success when the executor returned a
\* result with success = true and Failed otherwise.
WritesExecutionLog(p) ==
    \E log \in BagToSet(db_logs') :
        /\ db_logs' = db_logs (+) SetToBag({log})
        /\ log.task_id = CurTask(p).id
        /\ log.skip_reason = ""
        /\ log.status = IF ret'[1].value.err = "" /\ ret'[1].value.success
                         THEN "Success" ELSE "Failed"

\* C13 as stated: every dispatch that passed the three gates writes exactly
\* one RunLog when the executor returns, with no skip reason, status Success
\* iff the result has success = true and Failed for success = false or an
\* ExecutorError.
C13_DispatchWritesOneRunLog ==
    [][\A p \in Loops : ExecutorReturns(p) => WritesExecutionLog(p)]_vars

\* C13 amended: every dispatch that passed the three gates makes exactly one
\* insert of such a RunLog when the executor returns; the row is stored unless
\* the insert fails, and then run_logs is left as it was.
C13_DispatchInsertsOneRunLog ==
    [][\A p \in Loops :
          ExecutorReturns(p) =>
              \/ WritesExecutionLog(p)
              \/ BagCardinality(db_logs) >= MaxLogs /\ db_logs' = db_logs]_vars

\* An ExecutorError of a dispatch of the scheduler was logged as Failed.
C13_Witness ==
    /\ call = NoCall
    /\ ret # <<>>
    /\ ret[1].value.err # ""
    /\ \E log \in BagToSet(db_logs) :
          log.status = "Failed" /\ log.error_message = SomeStr(ret[1].value.err)

\* The executor returns to p from a target that needs a path and finds none.
MissingPathAttempt(p) ==
    /\ ExecutorReturns(p)
    /\ CurTask(p).target_type # "Url"
    /\ ~ret'[1].exec.path_exists

\* The attempt of p failed with PathNotFound having done nothing but the path
\* test: no liveness probe, no kill, no launch.
FailsBeforeAnyProbe(p) ==
    /\ ret'[1].value.err = "PathNotFound"
    /\ ret'[1].os = <<"exists">>

\* This step adds exactly one row to run_logs: the Failed row of the attempt.
WritesPathNotFoundLog(p) ==
    \E log \in BagToSet(db_logs') :
        /\ db_logs' = db_logs (+) SetToBag({log})
        /\ log.task_id = CurTask(p).id
        /\ log.status = "Failed"
        /\ log.error_message = SomeStr("PathNotFound")

\* C14 as stated: an execution attempt of a task whose target is not a URL and
\* whose path does not exist fails with PathNotFound before any liveness
\* probe, kill or launch, whatever the if_running_action and the wait policy,
\* and produces exactly one RunLog.
C14_MissingPathOneRunLog ==
    [][\A p \in Loops :
          MissingPathAttempt(p) => FailsBeforeAnyProbe(p) /\ WritesPathNotFoundLog(p)]_vars

\* C14 amended: such an attempt fails with PathNotFound before any liveness
\* probe, kill or launch and makes exactly one insert of a Failed RunLog; the
\* row is stored unless the insert fails.
C14_MissingPathFailsFirst ==
    [][\A p \in Loops :
          MissingPathAttempt(p) =>
              /\ FailsBeforeAnyProbe(p)
              /\ \/ WritesPathNotFoundLog(p)
                 \/ BagCardinality(db_logs) >= MaxLogs /\ db_logs' = db_logs]_vars

\* An executable whose if_running_action is not the default was attempted
\* while its path was missing and an image of its name was running.
C14_Witness ==
    /\ call = NoCall
    /\ ret # <<>>
    /\ ~ret[1].exec.path_exists
    /\ ret[1].exec.is_running
    /\ \E log \in BagToSet(db_logs) :
          /\ log.error_message = SomeStr("PathNotFound")
          /\ db_tasks[log.task_id].target_type = "Exe"
          /\ db_tasks[log.task_id].if_running_action # "Skip"

\* The latest dispatch of the scheduler ended in an ExecutorError.
ExecutorFailed == call = NoCall /\ ret # <<>> /\ ret[1].value.err # ""

\* C15: no failure halts the loop: after a dispatch that ended in an executor
\* error the tick goes on with the remaining triggers and tasks and the loop
\* stays alive for the next tick; no invocation of run has terminated.
C15_NoFailureHaltsLoop ==
    ExecutorFailed => \A p \in Loops : pc[p] # "panicked"

\* The text is not a time: NaiveTime::parse_from_str rejects it.
Malformed(text) == ~parse_from_str(text).ok

\* The trigger under evaluation carries malformed time data.
MalformedTrigger ==
    /\ call.fn = "compute_next_run"
    /\ \/ call.trigger.type = "DailyAt" /\ Malformed(call.trigger.time_local)
       \/ /\ call.trigger.type = "OncePerDay"
          /\ call.trigger.earliest_time_local.some
          /\ Malformed(call.trigger.earliest_time_local.v)

\* C16: for a trigger with malformed time data (a DailyAt time_local or an
\* OncePerDay earliest_time_local that is not a time) compute_next_run does not
\* panic and returns none: the trigger never fires.
C16_MalformedTimeNeverFires ==
    MalformedTrigger => \A i \in 1..Len(ret) : ret[i] = NextNone

\* The text is a time written HH:MM: two digits, a colon, two digits, the
\* hour below 24 and the minute below 60.
ValidHHMM(s) ==
    /\ Len(s) = 5
    /\ s[3] = ":"
    /\ \A k \in {1, 2, 4, 5} : s[k] \in Digits
    /\ 10 * DigitVal(s[1]) + DigitVal(s[2]) < 24
    /\ 10 * DigitVal(s[4]) + DigitVal(s[5]) < 60

\* The wall-clock time a valid HH:MM text names, in seconds after midnight.
WallClock(s) ==
    (10 * DigitVal(s[1]) + DigitVal(s[2])) * 3600 + (10 * DigitVal(s[4]) + DigitVal(s[5])) * 60

\* The call under evaluation is compute_next_run on an enabled DailyAt trigger
\* with a valid time and no day filter.
PlainDailyAt ==
    /\ call.fn = "compute_next_run"
    /\ call.trigger.type = "DailyAt"
    /\ call.trigger.enabled
    /\ ~call.trigger.days_of_week.some
    /\ ValidHHMM(call.trigger.time_local)

IntervalCall ==
    /\ call.fn = "compute_next_run"
    /\ call.trigger.type = "Interval"
    /\ call.trigger.enabled
    /\ call.trigger.every_seconds >= 60

\* C18: for an enabled Interval trigger with period P >= 60 s and jitter 0
\* (absent, or a configured maximum of 0) and last completed run T,
\* compute_next_run at any now with T <= now < T + P returns exactly T + P.
C18_IntervalWithoutJitter ==
    (/\ IntervalCall
     /\ call.trigger.jitter_seconds \in {NoneInt, SomeInt(0)}
     /\ call.state.last_run_at_utc.some
     /\ call.state.last_run_at_utc.v <= call.now
     /\ call.now < call.state.last_run_at_utc.v + call.trigger.every_seconds) =>
        \A i \in 1..Len(ret) :
            ret[i] = NextSome(call.state.last_run_at_utc.v + call.trigger.every_seconds)

\* C19: the Interval jitter is deterministic: two evaluations of
\* compute_next_run with the same trigger, now and state return the same
\* instant, whatever the wall clock reads.
C19_JitterDeterministic ==
    IntervalCall => \A i, j \in 1..Len(ret) : ret[i] = ret[j]

\* now - scheduled is strictly greater than s seconds.
LateOver(t, scheduled, s) ==
    \/ t.secs - scheduled.secs > s
    \/ t.secs - scheduled.secs = s /\ t.nanos > scheduled.nanos

\* C20: check_misfire returns false for RunImmediately on every input, and
\* for SkipIfLateOverSeconds(s) returns true iff now - scheduled is strictly
\* greater than s seconds.
C20_MisfireIffLateOver ==
    call.fn = "check_misfire" =>
        \A i \in 1..Len(ret) :
            ret[i] = (/\ call.policy.type = "SkipIfLateOverSeconds"
                      /\ LateOver(call.now, call.scheduled, call.policy.seconds))

\* The exit-code rule: membership in the success set when one is configured,
\* code = 0 when none is.
InSuccessSet(code, success_codes) ==
    IF success_codes.some
    THEN code \in {success_codes.v[k] : k \in 1..Len(success_codes.v)}
    ELSE code = 0

\* C21: check_exit_code(code, set) is true iff code belongs to the configured
\* success set (so never for an empty set), and iff code = 0 when no set is
\* configured; the success flag execute_exe reports for a waited process that
\* exited equals this value for its exit code.
C21_ExitCodeRule ==
    /\ call.fn = "check_exit_code" =>
          \A i \in 1..Len(ret) : ret[i] = InSuccessSet(call.code, call.success_codes)
    /\ call.fn = "execute_exe" =>
          \A i \in 1..Len(ret) :
              ret[i].err = "" =>
                  /\ ret[i].exit_code = SomeInt(call.env.exit_code)
                  /\ ret[i].success = InSuccessSet(call.env.exit_code, call.task.success_exit_codes)

\* A waited process exited with 0 and is reported as failed, because the
\* configured success set is empty.
C21_Witness ==
    /\ call.fn = "execute_exe"
    /\ call.task.success_exit_codes = SomeList(<<>>)
    /\ call.env.exit_code = 0
    /\ ret # <<>>
    /\ ret[1].err = ""
    /\ ~ret[1].success

\* The positions of an argument string outside quotes: an even number of
\* double quotes precedes them.
Unquoted(args, k) == Cardinality({j \in 1..(k - 1) : args[j] = "\""}) % 2 = 0
\* The positions at which parse_args splits.
SplitsAt(args) == {k \in 1..Len(args) : args[k] \in {" ", "\t"} /\ Unquoted(args, k)}
\* The positions whose character goes into a token.
KeptAt(args) == {k \in 1..Len(args) : args[k] # "\"" /\ k \notin SplitsAt(args)}
\* The kept positions that begin a token: no kept position lies between the
\* last split (or the start of the string) and them.
TokenStarts(args) ==
    {k \in KeptAt(args) :
        \A j \in KeptAt(args) : j < k => \E w \in SplitsAt(args) : j < w /\ w < k}
\* The characters at a set of positions, in order.
CharsAt(args, at) ==
    [i \in 1..Cardinality(at) |-> args[CHOOSE k \in at : Cardinality({j \in at : j < k}) = i - 1]]
\* The token that begins at position k: the kept characters up to the next split.
TokenFrom(args, k) ==
    CharsAt(args, {j \in KeptAt(args) : j >= k /\ ~\E w \in SplitsAt(args) : k < w /\ w < j})
RECURSIVE Concatenation(_)
Concatenation(tokens) ==
    IF tokens = <<>> THEN <<>> ELSE Head(tokens) \o Concatenation(Tail(tokens))

\* C22: parse_args splits the argument string at unquoted spaces and tabs,
\* each double quote toggling the quoted state and being stripped: no token is
\* empty or holds a double quote, the tokens are the runs of kept characters
\* between unquoted whitespace, their concatenation is the input without its
\* double quotes and unquoted whitespace, and foo "bar baz" qux gives
\* [foo, bar baz, qux].
C22_ParseArgsTokens ==
    call.fn = "parse_args" =>
        \A i \in 1..Len(ret) :
            /\ \A t \in 1..Len(ret[i]) :
                  /\ ret[i][t] # <<>>
                  /\ \A k \in 1..Len(ret[i][t]) : ret[i][t][k] # "\""
            /\ Concatenation(ret[i]) = CharsAt(call.args, KeptAt(call.args))
            /\ Len(ret[i]) = Cardinality(TokenStarts(call.args))
            /\ \A k \in TokenStarts(call.args) :
                  \E t \in 1..Len(ret[i]) : ret[i][t] = TokenFrom(call.args, k)
            /\ call.args = ArgsExample =>
                  ret[i] = <<<<"f", "o", "o">>, <<"b", "a", "r", " ", "b", "a", "z">>, <<"q", "u", "x">>>>

\* A quoted space stays inside its token while an unquoted one splits.
C22_Witness ==
    /\ call.fn = "parse_args"
    /\ call.args = ArgsExample
    /\ ret # <<>>
    /\ Len(ret[1]) = 3
    /\ \E k \in 1..Len(ret[1][2]) : ret[1][2][k] = " "

\* C23: TaskState is mutated only by the scheduler loop after an attempt: the
\* manual run_task_now path creates or overwrites no TaskState.
C23_RunNowLeavesTaskState ==
    [][(call.fn = "run_task_now" /\ ret = <<>> /\ ret' # <<>>) => db_task_state' = db_task_state]_vars

\* C24: after any sequence of create_task, update_task, delete_task and runs,
\* every stored task has exactly one TaskState and no TaskState is kept for an
\* id that is not stored.
C24_OneStatePerStoredTask ==
    DOMAIN db_task_state = DOMAIN db_tasks

\* What the pause flag and the value returned must be after each control call.
PauseFlagFollowsCall ==
    /\ call.fn = "pause" => paused
    /\ call.fn = "resume" => ~paused
    /\ call.fn = "is_paused" => (paused = call.before /\ call.value = paused)
    /\ call.fn = "toggle_pause" => (paused = ~call.before /\ call.value = paused)

\* A toggle that follows a toggle restores the flag, and a step that makes a
\* control call changes nothing of the dispatches.
ControlCallFrame ==
    /\ (call.fn = "toggle_pause" /\ call'.fn = "toggle_pause" /\ call' # call) =>
            paused' = call.before
    /\ (call' # call) =>
            (/\ call'.fn \in {"pause", "resume", "is_paused", "toggle_pause"}
             /\ UNCHANGED <<running_tasks, pc, tk, db_logs, db_task_state, ret>>)

\* C25: pause() sets and resume() clears the pause flag whatever it was,
\* is_paused() returns the flag and leaves it, toggle_pause() flips it and
\* returns the new value, so that two toggles in a row restore the flag; none
\* of the four changes the in-flight set, writes a RunLog or disturbs a
\* dispatch under way.
C25_PauseControl == []PauseFlagFollowsCall /\ [][ControlCallFrame]_vars

\* The flag was toggled to paused while an execution was in flight, and the
\* execution is still in flight.
C25_Witness ==
    /\ call.fn = "toggle_pause"
    /\ call.value
    /\ pc["L1"] = "exec"
    /\ running_tasks # {}

\* This step adds exactly one row to run_logs: a Skipped row of the task p
\* was dispatching, with the given reason.
WritesSkipLog(p, reason) ==
    \E log \in BagToSet(db_logs') :
        /\ db_logs' = db_logs (+) SetToBag({log})
        /\ log.task_id = CurTask(p).id
        /\ log.status = "Skipped"
        /\ log.skip_reason = reason

\* This step ends the dispatch of p without an execution: the in-flight set is
\* as it was, the executor has not returned anything, no TaskState is written
\* and p is back in the loop over the triggers.
EndsWithoutExecution(p) ==
    /\ running_tasks' = running_tasks
    /\ UNCHANGED <<ret, call, db_task_state>>
    /\ pc'[p] \in {"scan", "idle"}

\* p leaves the singleton gate having found the id of its singleton task in
\* the in-flight set.
SingletonFoundRunning(p) ==
    /\ pc[p] = "gate_singleton"
    /\ pc'[p] # "gate_singleton"
    /\ CurTask(p).singleton
    /\ CurTask(p).id \in running_tasks

\* C26 as stated: a singleton task found due while its id is in the in-flight
\* set gets exactly one RunLog Skipped/Singleton, with no executor call and
\* the in-flight set unchanged, whatever the concurrency and condition gates
\* would have said.
C26_SingletonSkipWritesOneRunLog ==
    [][\A p \in Loops :
          SingletonFoundRunning(p) => WritesSkipLog(p, "Singleton") /\ EndsWithoutExecution(p)]_vars

\* C26 amended: such a dispatch makes exactly one insert of a RunLog
\* Skipped/Singleton (stored unless the insert fails), calls no executor and
\* leaves the in-flight set unchanged, before the concurrency and condition
\* gates are looked at.
C26_SingletonSkipInsertsOneRunLog ==
    [][\A p \in Loops :
          SingletonFoundRunning(p) =>
              /\ EndsWithoutExecution(p)
              /\ \/ WritesSkipLog(p, "Singleton")
                 \/ BagCardinality(db_logs) >= MaxLogs /\ db_logs' = db_logs]_vars

\* A Singleton skip of a task is recorded while the execution that caused it
\* is still in flight, the concurrency gate being closed as well.
C26_Witness ==
    \E p \in Loops :
        /\ pc[p] \in SpanPcs
        /\ CurTask(p).singleton
        /\ Cardinality(running_tasks) >= max_parallel
        /\ \E log \in BagToSet(db_logs) :
              log.task_id = CurTask(p).id /\ log.skip_reason = "Singleton"

\* p leaves the concurrency gate having found it closed.
ConcurrencyGateClosed(p) ==
    /\ pc[p] = "gate_parallel"
    /\ pc'[p] # "gate_parallel"
    /\ Cardinality(running_tasks) >= max_parallel

\* C27: a dispatch that finds the in-flight count at or above max_parallel is
\* deferred silently: no RunLog, no evaluation of the conditions, no executor
\* call, and the in-flight set and the TaskState are left unchanged.
C27_ConcurrencyDeferralSilent ==
    [][\A p \in Loops :
          ConcurrencyGateClosed(p) => db_logs' = db_logs /\ EndsWithoutExecution(p)]_vars

\* A dispatch stands at the concurrency gate of a runner that admits one
\* execution while another execution is in flight.
C27_Witness ==
    \E p \in Loops : \E q \in Loops \ {p} :
        /\ pc[p] = "gate_parallel"
        /\ pc[q] \in SpanPcs
        /\ max_parallel > 0
        /\ Cardinality(running_tasks) >= max_parallel

\* p leaves the condition gate after evaluate_conditions returned Ok(false).
ConditionsFalse(p) == pc[p] = "conditions_false" /\ pc'[p] # "conditions_false"

\* C28 as stated: when the conditions of a task evaluate to false the dispatch
\* writes exactly one RunLog Skipped/ConditionFail, never inserts the id into
\* the in-flight set and does not call the executor.
C28_ConditionSkipWritesOneRunLog ==
    [][\A p \in Loops :
          ConditionsFalse(p) => WritesSkipLog(p, "ConditionFail") /\ EndsWithoutExecution(p)]_vars

\* C28 amended: such a dispatch makes exactly one insert of a RunLog
\* Skipped/ConditionFail (stored unless the insert fails), never inserts the
\* id into the in-flight set and does not call the executor.
C28_ConditionSkipInsertsOneRunLog ==
    [][\A p \in Loops :
          ConditionsFalse(p) =>
              /\ EndsWithoutExecution(p)
              /\ \/ WritesSkipLog(p, "ConditionFail")
                 \/ BagCardinality(db_logs) >= MaxLogs /\ db_logs' = db_logs]_vars

\* A ConditionFail skip is recorded and nothing is in flight.
C28_Witness ==
    /\ running_tasks = {}
    /\ ret = <<>>
    /\ \E log \in BagToSet(db_logs) : log.status = "Skipped" /\ log.skip_reason = "ConditionFail"

\* The wait has returned.
WaitReturned == call.fn = "wait_for_exit" /\ ret # <<>>
\* The timeout of the waited task, in milliseconds.
TimeoutMillis == from_secs(call.task.wait_policy.timeout_seconds.v)

\* C29: under WaitForExit with timeout t a process that exits before t
\* seconds have elapsed is reported with its exit code, success following the
\* exit-code rule, and never as Timeout; Timeout is reported only for a
\* process still running when t seconds have elapsed.
C29_ExitBeforeTimeoutReported ==
    (WaitReturned /\ ret[1].err # "IoError") =>
        /\ call.exits_at < TimeoutMillis => ret[1] = exit_result(call.task, call.code)
        /\ ret[1].err = "Timeout" => call.exits_at >= TimeoutMillis

\* The calls of try_wait a wait with this timeout can make when every sleep
\* lasts PollMillis at least.
MaxPolls == (TimeoutMillis + PollMillis - 1) \div PollMillis

\* C30: under WaitForExit with timeout t, execute returns after finitely many
\* polls, and when it returns Timeout the child has been killed and reaped:
\* no child is left running or as a zombie.
C30_WaitReturnsAndReaps ==
    /\ <>WaitReturned
    /\ [](call.fn = "wait_for_exit" => call.polls <= MaxPolls)
    /\ []((WaitReturned /\ ret[1].err = "Timeout") =>
              (call.kill_called /\ call.child = "reaped"))

\* A child that never exited within the timeout was polled, then killed and
\* reaped, and Timeout was returned.
C30_Witness ==
    /\ WaitReturned
    /\ ret[1].err = "Timeout"
    /\ call.exits_at > call.elapsed
    /\ call.polls > 1
    /\ call.child = "reaped"

\* The operation named op is among the operating-system operations os.
Performs(os, op) == \E k \in 1..Len(os) : os[k] = op

\* C31: for an executable whose image is already running, Skip launches
\* nothing and returns success = true with no exit code and an explanatory
\* message, which a true successful launch never carries; Restart kills the
\* running process before the new launch; RunAnyway launches without a kill.
C31_IfRunningAction ==
    call.fn = "execute_task" =>
        \A i \in 1..Len(ret) :
            /\ (call.env.is_running /\ call.task.if_running_action = "Skip") =>
                  /\ ~Performs(ret[i].os, "spawn") /\ ~Performs(ret[i].os, "taskkill")
                  /\ ret[i].value.err = "" /\ ret[i].value.success
                  /\ ret[i].value.exit_code = NoneInt
                  /\ ret[i].value.error_message.some
            /\ (Performs(ret[i].os, "spawn") /\ ret[i].value.err = "" /\ ret[i].value.success) =>
                  ret[i].value.error_message = NoneStr
            /\ (call.env.is_running /\ call.task.if_running_action = "Restart") =>
                  \E k \in 1..Len(ret[i].os) :
                      /\ ret[i].os[k] = "taskkill"
                      /\ \E m \in (k + 1)..Len(ret[i].os) : ret[i].os[m] = "spawn"
                      /\ \A m \in 1..k : ret[i].os[m] # "spawn"
            /\ (call.env.is_running /\ call.task.if_running_action = "RunAnyway") =>
                  Performs(ret[i].os, "spawn") /\ ~Performs(ret[i].os, "taskkill")

\* An executable that was already running was soft-skipped: nothing was
\* launched and the result is a success with a message.
C31_Witness ==
    /\ call.fn = "execute_task"
    /\ call.env.is_running
    /\ call.task.if_running_action = "Skip"
    /\ ret # <<>>
    /\ ret[1].value.success
    /\ ret[1].value.error_message.some
    /\ ret[1].os = <<"exists", "tasklist">>

\* The letters, in either case, of the 3-letter code of a weekday.
WeekdayLetters(wd) ==
    CASE wd = 0 -> <<{"m", "M"}, {"o", "O"}, {"n", "N"}>>
      [] wd = 1 -> <<{"t", "T"}, {"u", "U"}, {"e", "E"}>>
      [] wd = 2 -> <<{"w", "W"}, {"e", "E"}, {"d", "D"}>>
      [] wd = 3 -> <<{"t", "T"}, {"h", "H"}, {"u", "U"}>>
      [] wd = 4 -> <<{"f", "F"}, {"r", "R"}, {"i", "I"}>>
      [] wd = 5 -> <<{"s", "S"}, {"a", "A"}, {"t", "T"}>>
      [] wd = 6 -> <<{"s", "S"}, {"u", "U"}, {"n", "N"}>>
\* The text is the code of the weekday, in whatever case.
NamesWeekday(text, wd) ==
    Len(text) = 3 /\ \A k \in 1..3 : text[k] \in WeekdayLetters(wd)[k]

\* The call under evaluation is compute_next_run on a OncePerDay trigger.
OncePerDayCall == call.fn = "compute_next_run" /\ call.trigger.type = "OncePerDay"

\* The cases in which a OncePerDay trigger has no next run: it is disabled, it
\* ran on now's local date, or its allow-list does not name now's weekday.
OncePerDayExcluded ==
    \/ ~call.trigger.enabled
    \/ call.state.last_run_date_local = SomeInt(format_date(call.now))
    \/ /\ call.trigger.days_of_week.some
       /\ \A k \in 1..Len(call.trigger.days_of_week.v) :
              ~NamesWeekday(call.trigger.days_of_week.v[k], weekday_of(call.now))

\* An earliest-time bound is set and now's time precedes it.
BeforeEarliest ==
    /\ call.trigger.earliest_time_local.some
    /\ ValidHHMM(call.trigger.earliest_time_local.v)
    /\ time_of(call.now) < WallClock(call.trigger.earliest_time_local.v)

AnyIntervalCall == call.fn = "compute_next_run" /\ call.trigger.type = "Interval"

\* The last completed run, or now if the task never ran.
IntervalBase ==
    IF call.state.last_run_at_utc.some THEN call.state.last_run_at_utc.v ELSE call.now

\* The configured maximum of the jitter, 0 when none is configured.
JitterMax == IF call.trigger.jitter_seconds.some THEN call.trigger.jitter_seconds.v ELSE 0

\* C33: compute_next_run for an Interval trigger returns none iff the trigger
\* is disabled or its period is below 60 s; otherwise it returns
\* max(now, base + period + jitter) for a jitter between 0 and the configured
\* maximum, base being the last completed run, or now if the task never ran.
C33_IntervalNextRun ==
    AnyIntervalCall =>
        \A i \in 1..Len(ret) :
            IF ~call.trigger.enabled \/ call.trigger.every_seconds < 60
            THEN ret[i] = NextNone
            ELSE /\ ret[i].tag = "Some"
                 /\ \E jitter \in 0..JitterMax :
                       LET next == IntervalBase + call.trigger.every_seconds + jitter
                       IN  ret[i].v = IF next > call.now THEN next ELSE call.now

\* What one condition evaluates to on the machine of the call:
\* OnlyIfPathExists and IdleForSeconds are true whatever the machine.
ConditionHolds(c) ==
    IF c.type \in {"OnlyIfPathExists", "IdleForSeconds"} THEN TRUE
    ELSE evaluate_single_condition(c, call.env)

\* C34: evaluate_conditions returns true iff every condition of the list
\* evaluates to true (so for the empty list); it stops at the first condition
\* that is false, returning false without evaluating a later one;
\* OnlyIfPathExists and IdleForSeconds always evaluate to true.
C34_EvaluateConditions ==
    call.fn = "evaluate_conditions" =>
        \A i \in 1..Len(ret) :
            /\ ret[i].value \in {"true", "false"}
            /\ ret[i].value = "true" <=>
                  \A k \in 1..Len(call.conditions) : ConditionHolds(call.conditions[k])
            /\ ret[i].probed = SubSeq(call.conditions, 1, Len(ret[i].probed))
            /\ \A k \in 1..(Len(ret[i].probed) - 1) : ConditionHolds(ret[i].probed[k])
            /\ ret[i].value = "true" => ret[i].probed = call.conditions
            /\ ret[i].value = "false" => ~ConditionHolds(ret[i].probed[Len(ret[i].probed)])

\* The first of two conditions was false and the second was not evaluated.
C34_Witness ==
    /\ call.fn = "evaluate_conditions"
    /\ Len(call.conditions) = 2
    /\ ret # <<>>
    /\ ret[1].value = "false"
    /\ Len(ret[1].probed) = 1

\* Every dispatch under way is the dispatch of a OncePerDay trigger.
OnlyOncePerDayInDispatch ==
    \A p \in Loops : pc[p] \in DispatchPcs => CurTrigger(p).type = "OncePerDay"

\* The tick is about to evaluate a trigger of another type, on an enabled
\* task: the evaluation returns none or an instant after the tick's now.
OtherTriggersReturnLater ==
    \A p \in Loops :
        (pc[p] = "scan" /\ CurTask(p).enabled /\ CurTrigger(p).type # "OncePerDay") =>
            \A nanos \in Nanos :
                LET next_run == evaluate_at(tk[p].tasks, tk[p].pos, tk[p].now, nanos)
                IN  \/ next_run.tag = "None"
                    \/ next_run.tag = "Some" /\ next_run.v > tk[p].now

\* C35: only OncePerDay triggers are ever dispatched by the tick: evaluated at
\* the tick's now, OnLogin returns none, DailyAt an instant after now, and
\* Interval, evaluated against a state without a last run, now + period
\* (+ jitter) > now, so that none of the three passes the due check.
C35_OnlyOncePerDayDispatched == OnlyOncePerDayInDispatch /\ OtherTriggersReturnLater

\* The positions of a dispatch at which a gate is evaluated.
GatePcs ==
    {"gate_singleton", "gate_parallel", "gate_conditions", "conditions_true", "conditions_false",
     "conditions_err"}

\* C36: with a single scheduler loop the in-flight set is empty at every gate
\* evaluation and never holds more than one id; so no Singleton skip is ever
\* written, and the concurrency gate is closed only when max_parallel = 0, in
\* which case nothing is ever executed.
C36_SingleLoopInFlight ==
    /\ \A p \in Loops : pc[p] \in GatePcs => running_tasks = {}
    /\ Cardinality(running_tasks) <= 1
    /\ \A log \in BagToSet(db_logs) : log.skip_reason # "Singleton"
    /\ \A p \in Loops :
          (pc[p] = "gate_parallel" /\ Cardinality(running_tasks) >= max_parallel) =>
              max_parallel = 0
    /\ max_parallel = 0 => (ret = <<>> /\ \A p \in Loops : pc[p] \notin SpanPcs)

\* After an execution was logged, the loop evaluates a gate and finds the
\* in-flight set empty.
C36_Witness ==
    /\ pc["L1"] = "gate_parallel"
    /\ ret # <<>>
    /\ \E log \in BagToSet(db_logs) : log.status \in {"Success", "Failed"}
    /\ running_tasks = {}

\* The executions between mark-in-flight and unmark-in-flight.
ExecutionsInSpan == {p \in Loops : pc[p] \in SpanPcs}

\* C37: at every moment, under any interleaving of concurrent ticks, the size
\* of the in-flight set equals the number of executions between
\* mark-in-flight and unmark-in-flight, also when two executions of one
\* non-singleton task overlap.
C37_InFlightSizeIsExecutionCount ==
    Cardinality(running_tasks) = Cardinality(ExecutionsInSpan)

\* run_task_now returns in this step.  (The loop does not move: a step that
\* ends an execution of the scheduler moves it.)
ManualRunReturns ==
    /\ call.fn = "run_task_now"
    /\ ret = <<>>
    /\ ret' # <<>>
    /\ pc' = pc

\* This step adds exactly one row to run_logs: the row of a manual run of the
\* task named by the call.
WritesManualLog ==
    \E log \in BagToSet(db_logs') :
        /\ db_logs' = db_logs (+) SetToBag({log})
        /\ log.task_id = call.id
        /\ log.trigger_type = [type |-> "Manual"]

\* The manual run leaves the in-flight set, the pause flag, the stored tasks
\* and the loop as they are; for a stored id it returns what executing the
\* target on this machine gives, whatever the pause flag, the enabled flag
\* and the in-flight set hold; for an unknown id it returns "Task not found"
\* and writes nothing.
ManualRunFrame ==
    /\ UNCHANGED <<running_tasks, paused, db_tasks, tk, max_parallel>>
    /\ IF call.id \in DOMAIN db_tasks
       THEN /\ ret'[1].value = command_value(execute_task(db_tasks[call.id], call.exec))
            /\ ret'[1].os = os_calls(db_tasks[call.id], call.exec)
       ELSE /\ ret'[1].value = "Task not found"
            /\ ret'[1].os = <<>>
            /\ UNCHANGED <<db_logs, db_task_state>>

SoftSkipResult == ExecOk(TRUE, NoneInt, SomeStr("Skipped - already running"))
LaunchedResult == ExecOk(TRUE, NoneInt, NoneStr)

\* This step is the end of a dispatch of loop p whose execution was a soft-skip.
SchedulerSoftSkip(p) ==
    /\ pc[p] = "exec"
    /\ pc'[p] # "exec"
    /\ execute_task(CurTask(p), ret'[1].exec) = SoftSkipResult

\* This step is the return of a manual run whose execution was a soft-skip.
ManualSoftSkip ==
    /\ ManualRunReturns
    /\ call.id \in DOMAIN db_tasks
    /\ execute_task(db_tasks[call.id], call.exec) = SoftSkipResult

\* The row has the status fields of a successful launch without waiting.
SuccessFields(log) ==
    /\ log.status = "Success"
    /\ log.skip_reason = ""
    /\ log.exit_code = NoneInt
    /\ log.error_message = NoneStr

\* This step adds one row to run_logs, a row of task id with the fields above.
WritesSuccessLog(id) ==
    \E log \in BagToSet(db_logs') :
        /\ db_logs' = db_logs (+) SetToBag({log})
        /\ log.task_id = id
        /\ SuccessFields(log)

\* After this step the stored state of task id has last result Success.
StoresLastResultSuccess(id) ==
    /\ id \in DOMAIN db_task_state'
    /\ db_task_state'[id].last_result = SomeStr("Success")

\* The row a soft-skip hands to insert_log has the status fields of a
\* successful launch, in the loop and in a manual run, and is stored unless the
\* insert fails.
SoftSkipInsertsSuccessLog ==
    [][/\ \A p \in Loops :
            SchedulerSoftSkip(p) =>
                /\ execution_log(CurTask(p), CurTrigger(p), SoftSkipResult, now)
                      = execution_log(CurTask(p), CurTrigger(p), LaunchedResult, now)
                /\ \/ WritesSuccessLog(CurTask(p).id)
                   \/ BagCardinality(db_logs) >= MaxLogs /\ db_logs' = db_logs
       /\ ManualSoftSkip =>
             /\ manual_log(db_tasks[call.id], SoftSkipResult, now)
                   = manual_log(db_tasks[call.id], LaunchedResult, now)
             /\ \/ WritesSuccessLog(call.id)
                \/ BagCardinality(db_logs) >= MaxLogs /\ db_logs' = db_logs]_vars

\* C40: a soft-skip, dispatched by the scheduler loop or by run_task_now, is
\* recorded as a RunLog with status Success, no skip reason, no exit code and
\* no error message, and as last result Success.
C40_SoftSkipRecordedAsSuccess ==
    [][/\ \A p \in Loops :
            SchedulerSoftSkip(p) =>
                WritesSuccessLog(CurTask(p).id) /\ StoresLastResultSuccess(CurTask(p).id)
       /\ ManualSoftSkip =>
             WritesSuccessLog(call.id) /\ StoresLastResultSuccess(call.id)]_vars

\* A soft-skip of the loop was logged as Success and left no stored state.
SchedulerSoftSkipLogged ==
    /\ pc["L1"] # "exec"
    /\ ret # <<>>
    /\ call.fn # "run_task_now"
    /\ ret[1].exec.is_running
    /\ \E log \in BagToSet(db_logs) : SuccessFields(log) /\ log.trigger_type.type = "OncePerDay"
    /\ DOMAIN db_task_state = {}

====
